---- MODULE Spec2Model ----
(***************************************************************************)
(* A model of the flight-school auditor (jesussalgad372/Capstone-2).       *)
(*                                                                         *)
(* Spec models auditor/inspections.py: list_inspection_violations, the     *)
(* replay of each aircraft's lessons and repairs in (tail, time) order.    *)
(* SpecEndorse models auditor/endorsements.py: list_endorsement_violations *)
(* with the functions of pilots.py it calls.  SpecWeather models           *)
(* violations.py: list_weather_violations with get_minimums,               *)
(* get_weather_report and get_weather_violation.  The scans are separate   *)
(* calls of discover_violations; the variables one scan does not use keep  *)
(* their initial value in its specification.                               *)
(*                                                                         *)
(* Time is counted in whole hours from an arbitrary origin; a timestamp    *)
(* that str_to_time could not parse is None.  Flight hours are whole hours *)
(* as well, so "over 100" is "at least 101".                               *)
(***************************************************************************)
EXTENDS Integers, Sequences, FiniteSets, TLC

VARIABLES
    lessons,          \* lessons.csv: rows [tail, takeoff, landing] for the inspection scan,
                      \* rows [student, plane, instructor, takeoff, filed] for the endorsement scan
    planes,           \* fleet.csv: rows [tail, annual, hours] for the inspection scan,
                      \* rows [tail, capability, advanced, multiengine] for the endorsement scan
    repairs,          \* repairs.csv without its header: rows [tail, in_date, out_date, desc]
    plane_state,      \* tail -> [last_annual, hours_since_100, in_shop_periods, repairs]
    events,           \* the timeline: [tail, time, etype, lesson, landing]
    idx,              \* position of the scan's loop (in events, or in lessons)
    current_annual,   \* tail -> date of the last annual inspection replayed
    current_hours,    \* tail -> hours flown since the last repair replayed
    last_landing,     \* tail -> landing of the last lesson replayed
    grounded,         \* the loop body's locals, as the last lesson left them
    annual,
    inspection,
    duration,
    annotation,
    violations,       \* the list the scan returns
    pc,               \* where the scan is: "load", "timeline", "replay" or "scan", then
                      \* "done" or "raised"
    err,              \* the exception that ended the scan, or "none"
    students,         \* students.csv: rows [id, joined, solo, license, hours50,
                      \* instrument, advanced, multiengine]
    instructors,      \* instructors.csv: rows [id, cfii, mei]
    solo,             \* the endorsement loop's locals, as the last lesson left them
    endorsement,
    ifr,
    minimums,         \* minimums.csv with its header: rows [category, conditions, area, time,
                      \* ceiling, visibility, wind, crosswind]
    weather,          \* weather.json: entries [key, report] in the order of the file
    daycycle,         \* daycycle.json: [timezone, sun]
    mins,             \* the weather loop's locals, as the last lesson left them
    weather_report,
    violation,
    args,             \* the arguments of a single call of one function
    result,           \* what that call returned
    run,              \* 1 in the first run of a scan, 2 in a second run over the same files
    previous,         \* the files and the outcome of the first run, once it has ended
    directory,        \* the files discover_violations is pointed at
    stage,            \* where discover_violations is: "weather", "inspection",
                      \* "endorsement", then "count"; "idle" when a scan is called alone
    all_violations    \* the list discover_violations gathers

inspOnly == << repairs, plane_state, events, current_annual, current_hours, last_landing,
               grounded, annual, inspection, duration >>

endorseOnly == << students, instructors, solo, endorsement, ifr >>

weatherOnly == << minimums, weather, daycycle, mins, weather_report, violation >>

callOnly == << args, result >>

rerunOnly == << run, previous >>

discoverOnly == << directory, stage, all_violations >>

\* what the inspection scan does not touch
notInspection == << endorseOnly, weatherOnly, callOnly, rerunOnly, discoverOnly >>

\* what the endorsement scan does not touch
notEndorsement == << inspOnly, weatherOnly, callOnly, rerunOnly, discoverOnly >>

\* what the weather scan does not touch
notWeather == << planes, annotation, instructors, solo, endorsement, ifr, inspOnly,
                callOnly, rerunOnly, discoverOnly >>

\* what a single call of a function does not touch
notCall == << lessons, planes, students, idx, annotation, violations, instructors, solo,
             endorsement, ifr, inspOnly, weatherOnly, rerunOnly, discoverOnly >>

vars == << lessons, planes, idx, annotation, violations, pc, err, inspOnly, endorseOnly,
           weatherOnly, callOnly, rerunOnly, discoverOnly >>

-----------------------------------------------------------------------------
(* Values *)

\* utils.str_to_time returns None for a string that does not parse
None == << >>
Some(t) == << t >>
Val(x) == x[1]

\* the annotation of a lesson with no violation
NoLabel == "None"

YearDays == 365
HourLimit == 100
HoursPerDay == 24

\* the tables hold at most this many rows
MaxLessons == 2
MaxRepairs == 1

SeqsUpTo(S, n) == UNION { [1..k -> S] : k \in 0..n }

\* str.__lt__ on the tail numbers of the model
TailOrd(tail) == CASE tail = "A" -> 1 [] tail = "B" -> 2 [] OTHER -> 3

\* row[3].strip().lower() on the descriptions of the model
StripLower(desc) ==
    CASE desc = "Annual Inspection"  -> "annual inspection"
      [] desc = " annual inspection" -> "annual inspection"
      [] desc = "Oil Change"         -> "oil change"
      [] OTHER                       -> desc

-----------------------------------------------------------------------------
(* list_inspection_violations: building the per-plane state *)

\* the dict built by the loop over fleet.csv: a later row of a tail replaces an earlier one
FleetState(fleet) ==
    [ tail \in { fleet[i].tail : i \in DOMAIN fleet } |->
        LET i == CHOOSE k \in DOMAIN fleet :
                    /\ fleet[k].tail = tail
                    /\ \A m \in DOMAIN fleet : fleet[m].tail = tail => m <= k
        IN  [ last_annual     |-> fleet[i].annual,
              hours_since_100 |-> fleet[i].hours,
              in_shop_periods |-> << >>,
              repairs         |-> << >> ] ]

\* the description compared as it is written in repairs.csv
IsAnnualDescExact(desc) == desc = "annual inspection"

IsAnnualDesc(desc) == StripLower(desc) = "annual inspection"

RepairEntry(row) ==
    [ type |-> IF IsAnnualDesc(row.desc) THEN "annual" ELSE "repair",
      date |-> row.in_date ]

RECURSIVE AddRepairs(_, _, _)
AddRepairs(ps, reps, i) ==
    IF i > Len(reps) THEN ps
    ELSE LET row == reps[i] IN
         IF row.tail \in DOMAIN ps
         THEN AddRepairs(
                [ ps EXCEPT ![row.tail].repairs = Append(@, RepairEntry(row)),
                            ![row.tail].in_shop_periods =
                                Append(@, << row.in_date, row.out_date >>) ],
                reps, i + 1)
         ELSE AddRepairs(ps, reps, i + 1)

-----------------------------------------------------------------------------
(* list_inspection_violations: the timeline *)

LessonEvents(ls) ==
    [ i \in DOMAIN ls |->
        [ tail |-> ls[i].tail, time |-> ls[i].takeoff, etype |-> "lesson",
          lesson |-> ls[i], landing |-> ls[i].landing ] ]

RepairEventsOf(tail, reps) ==
    [ i \in DOMAIN reps |->
        [ tail |-> tail, time |-> reps[i].date, etype |-> reps[i].type,
          lesson |-> None, landing |-> None ] ]

\* plane_state.items() runs over the tails in the order fleet.csv first names them
RECURSIVE PlaneOrder(_, _)
PlaneOrder(fleet, i) ==
    IF i > Len(fleet) THEN << >>
    ELSE IF \E k \in 1..(i - 1) : fleet[k].tail = fleet[i].tail
         THEN PlaneOrder(fleet, i + 1)
         ELSE << fleet[i].tail >> \o PlaneOrder(fleet, i + 1)

RECURSIVE AllRepairEvents(_, _, _)
AllRepairEvents(ps, order, i) ==
    IF i > Len(order) THEN << >>
    ELSE RepairEventsOf(order[i], ps[order[i]].repairs) \o AllRepairEvents(ps, order, i + 1)

\* the timeline with the repairs appended before the lessons
TimelineRepairsFirst(ls, ps, fleet) ==
    AllRepairEvents(ps, PlaneOrder(fleet, 1), 1) \o LessonEvents(ls)

\* lines 143-151: the lessons in the order of lessons.csv, then each plane's repairs
Timeline(ls, ps, fleet) == LessonEvents(ls) \o AllRepairEvents(ps, PlaneOrder(fleet, 1), 1)

\* (x[0], x[1]) < (y[0], y[1]) raises TypeError when the tails are equal and exactly
\* one of the times is None; list.sort meets such a pair whenever the list holds one
SortRaises(evs) ==
    \E i, j \in DOMAIN evs :
        /\ evs[i].tail = evs[j].tail
        /\ evs[i].time = None
        /\ evs[j].time # None

\* the key comparison of events.sort, for keys that can be compared
KeyLess(a, b) ==
    \/ TailOrd(a.tail) < TailOrd(b.tail)
    \/ /\ a.tail = b.tail
       /\ a.time # None
       /\ b.time # None
       /\ Val(a.time) < Val(b.time)

\* e goes behind every event of s that does not come after it (the sort is stable)
InsertEvent(s, e) ==
    LET later == { k \in DOMAIN s : KeyLess(e, s[k]) }
        p == IF later = {} THEN Len(s) + 1
             ELSE CHOOSE k \in later : \A m \in later : k <= m
    IN  SubSeq(s, 1, p - 1) \o << e >> \o SubSeq(s, p, Len(s))

RECURSIVE SortEvents(_, _, _)
SortEvents(evs, i, acc) ==
    IF i > Len(evs) THEN acc
    ELSE SortEvents(evs, i + 1, InsertEvent(acc, evs[i]))

\* the timeline left in the order of the tables
UnsortedTimeline(ls, ps, fleet) == Timeline(ls, ps, fleet)

SortedTimeline(ls, ps, fleet) == SortEvents(Timeline(ls, ps, fleet), 1, << >>)

-----------------------------------------------------------------------------
(* list_inspection_violations: the checks of one lesson *)

\* a takeoff at the very entry of the shop period left out
TakeoffInShopStrict(time, in_date, out_date) == time > in_date /\ time < out_date

\* a landing at the very entry of the shop period taken in
LandingInShopClosed(landing, in_date, out_date) == landing >= in_date /\ landing <= out_date

\* the three disjuncts of the overlap test of one shop period (line 167)
TakeoffInShop(time, in_date, out_date) == time >= in_date /\ time < out_date

LandingInShop(landing, in_date, out_date) == landing > in_date /\ landing <= out_date

SpansShop(time, landing, in_date, out_date) == time <= in_date /\ landing >= out_date

\* the overlap test of one shop period, all four timestamps parsed
InShop(time, landing, in_date, out_date) ==
    \/ TakeoffInShop(time, in_date, out_date)
    \/ LandingInShop(landing, in_date, out_date)
    \/ SpansShop(time, landing, in_date, out_date)

\* the loop over in_shop_periods: "yes", "no", or "TypeError" when a comparison
\* meets a None takeoff or landing ("or" stops at the first true disjunct)
RECURSIVE GroundedScan(_, _, _, _)
GroundedScan(time, landing, periods, i) ==
    IF i > Len(periods) THEN "no"
    ELSE LET in_date  == periods[i][1]
             out_date == periods[i][2]
         IN  IF in_date = None \/ out_date = None
             THEN GroundedScan(time, landing, periods, i + 1)
             ELSE IF time = None THEN "TypeError"
             ELSE IF TakeoffInShop(Val(time), Val(in_date), Val(out_date)) THEN "yes"
             ELSE IF landing = None THEN "TypeError"
             ELSE IF InShop(Val(time), Val(landing), Val(in_date), Val(out_date))
                  THEN "yes"
                  ELSE GroundedScan(time, landing, periods, i + 1)

\* day 365 taken as overdue
AnnualOverdueAt365(time, since) == (time - since) \div HoursPerDay >= YearDays

\* (time - current_annual).days
DaysBetween(time, since) == (time - since) \div HoursPerDay

AnnualOverdue(time, since) == DaysBetween(time, since) > YearDays

\* the annual check: "yes", "no", or "TypeError" for None - datetime
AnnualCheck(time, since) ==
    IF since = None THEN "no"
    ELSE IF time = None THEN "TypeError"
    ELSE IF AnnualOverdue(Val(time), Val(since)) THEN "yes" ELSE "no"

\* the flight time taken in whole days, (landing - time).days
DurationInDays(time, landing) ==
    IF landing # None /\ time # None THEN (Val(landing) - Val(time)) \div HoursPerDay ELSE 0

Duration(time, landing) ==
    IF landing # None /\ time # None THEN Val(landing) - Val(time) ELSE 0

\* landing with exactly 100 hours taken as overdue
HundredHourOverdueAt100(hours, dur) == hours >= HourLimit \/ hours + dur >= HourLimit

\* the check made after the lesson's hours were added to the counter
HundredHourOverdueAfterUpdate(hours, dur) ==
    hours + dur >= HourLimit \/ (hours + dur < HourLimit /\ hours + dur + dur > HourLimit)

HundredHourOverdue(hours, dur) ==
    hours >= HourLimit \/ (hours < HourLimit /\ hours + dur > HourLimit)

Annots(a, i, g) ==
    (IF a THEN << "Annual" >> ELSE << >>)
      \o (IF i THEN << "Inspection" >> ELSE << >>)
      \o (IF g THEN << "Grounded" >> ELSE << >>)

\* 'Maintenance' only when all three are violated
AnnotationAllThree(a, i, g) ==
    LET annots == Annots(a, i, g) IN
    IF Len(annots) > 2 THEN "Maintenance"
    ELSE IF Len(annots) >= 1 THEN annots[1]
    ELSE NoLabel

Annotation(a, i, g) ==
    LET annots == Annots(a, i, g) IN
    IF Len(annots) > 1 THEN "Maintenance"
    ELSE IF Len(annots) = 1 THEN annots[1]
    ELSE NoLabel

-----------------------------------------------------------------------------
(* The datasets of the model *)

\* the last hours of day 365 after the origin, and the first of day 366
T0 == YearDays * HoursPerDay + HoursPerDay - 2

Fleet == { "A" }
UnknownTail == "X"

LessonTimes == { T0, T0 + 2 }
Durations == { 0, 1, 2 }
RepairTimes == { T0 + 1, T0 + 2 }
RepairLengths == { 0, 1 }
Descriptions == { "Annual Inspection", "Oil Change" }
AnnualDates == { None, Some(0) }
InitialHours == { HourLimit - 1, HourLimit }

LessonRows ==
    { [ tail |-> a, takeoff |-> Some(t), landing |-> Some(t + d) ] :
        a \in Fleet, t \in LessonTimes, d \in Durations }
    \cup { [ tail |-> UnknownTail, takeoff |-> Some(T0), landing |-> Some(T0 + 1) ] }
    \cup { [ tail |-> a, takeoff |-> None, landing |-> Some(T0 + 1) ] : a \in Fleet }
    \cup { [ tail |-> a, takeoff |-> Some(T0), landing |-> None ] : a \in Fleet }

RepairRows ==
    { [ tail |-> a, in_date |-> Some(t), out_date |-> Some(t + n), desc |-> d ] :
        a \in Fleet, t \in RepairTimes, n \in RepairLengths, d \in Descriptions }
    \cup { [ tail |-> UnknownTail, in_date |-> Some(T0 + 1), out_date |-> Some(T0 + 2),
             desc |-> "Oil Change" ] }
    \cup { [ tail |-> a, in_date |-> None, out_date |-> Some(T0 + 2),
             desc |-> "Oil Change" ] : a \in Fleet }
    \cup { [ tail |-> a, in_date |-> Some(T0 + 1), out_date |-> None,
             desc |-> "Oil Change" ] : a \in Fleet }

FleetRows ==
    { [ tail |-> a, annual |-> d, hours |-> h ] :
        a \in Fleet, d \in AnnualDates, h \in InitialHours }

\* one row per plane of the fleet
FleetTables == { << r >> : r \in FleetRows }

-----------------------------------------------------------------------------
(* list_inspection_violations as a state machine *)

Init ==
    /\ lessons \in SeqsUpTo(LessonRows, MaxLessons)
    /\ planes \in FleetTables
    /\ repairs \in SeqsUpTo(RepairRows, MaxRepairs)
    /\ plane_state = << >>
    /\ events = << >>
    /\ idx = 0
    /\ current_annual = << >>
    /\ current_hours = << >>
    /\ last_landing = << >>
    /\ grounded = FALSE
    /\ annual = FALSE
    /\ inspection = FALSE
    /\ duration = 0
    /\ annotation = NoLabel
    /\ violations = << >>
    /\ pc = "load"
    /\ err = "none"
    /\ students = << >>
    /\ instructors = << >>
    /\ solo = FALSE
    /\ endorsement = FALSE
    /\ ifr = FALSE
    /\ minimums = << >>
    /\ weather = << >>
    /\ daycycle = << >>
    /\ mins = << >>
    /\ weather_report = << >>
    /\ violation = NoLabel
    /\ args = << >>
    /\ result = << >>
    /\ run = 1
    /\ previous = << >>
    /\ directory = << >>
    /\ stage = "idle"
    /\ all_violations = << >>

\* lines 117-140
BuildState ==
    /\ pc = "load"
    /\ plane_state' = AddRepairs(FleetState(planes), repairs, 1)
    /\ pc' = "timeline"
    /\ UNCHANGED << lessons, planes, repairs, events, idx, current_annual, current_hours,
                    last_landing, grounded, annual, inspection, duration, annotation,
                    violations, err >>
    /\ UNCHANGED notInspection

\* lines 142-159
BuildTimeline ==
    /\ pc = "timeline"
    /\ ~SortRaises(Timeline(lessons, plane_state, planes))
    /\ events' = SortedTimeline(lessons, plane_state, planes)
    /\ current_annual' = [ t \in DOMAIN plane_state |-> plane_state[t].last_annual ]
    /\ current_hours' = [ t \in DOMAIN plane_state |-> plane_state[t].hours_since_100 ]
    /\ last_landing' = [ t \in DOMAIN plane_state |-> None ]
    /\ idx' = 1
    /\ pc' = "replay"
    /\ UNCHANGED << lessons, planes, repairs, plane_state, grounded, annual, inspection,
                    duration, annotation, violations, err >>
    /\ UNCHANGED notInspection

\* line 152, the sort raising
SortTypeError ==
    /\ pc = "timeline"
    /\ SortRaises(Timeline(lessons, plane_state, planes))
    /\ events' = Timeline(lessons, plane_state, planes)
    /\ pc' = "raised"
    /\ err' = "TypeError"
    /\ UNCHANGED << lessons, planes, repairs, plane_state, idx, current_annual,
                    current_hours, last_landing, grounded, annual, inspection, duration,
                    annotation, violations >>
    /\ UNCHANGED notInspection

AtEvent == pc = "replay" /\ idx <= Len(events)
Event == events[idx]

GroundedOf(e) ==
    GroundedScan(e.time, e.landing, plane_state[e.tail].in_shop_periods, 1)

LessonRaises(e) ==
    \/ e.tail \notin DOMAIN plane_state
    \/ GroundedOf(e) = "TypeError"
    \/ AnnualCheck(e.time, current_annual[e.tail]) = "TypeError"

\* lines 162-198
LessonEvent ==
    /\ AtEvent
    /\ Event.etype = "lesson"
    /\ ~LessonRaises(Event)
    /\ LET e == Event
           g == GroundedOf(e) = "yes"
           a == AnnualCheck(e.time, current_annual[e.tail]) = "yes"
           d == Duration(e.time, e.landing)
           i == HundredHourOverdue(current_hours[e.tail], d)
           label == Annotation(a, i, g)
       IN  /\ grounded' = g
           /\ annual' = a
           /\ duration' = d
           /\ inspection' = i
           /\ annotation' = label
           /\ violations' = IF label # NoLabel
                            THEN Append(violations, [ lesson |-> e.lesson, reason |-> label ])
                            ELSE violations
           /\ current_hours' = [ current_hours EXCEPT ![e.tail] = @ + d ]
           /\ last_landing' = [ last_landing EXCEPT ![e.tail] = e.landing ]
    /\ idx' = idx + 1
    /\ UNCHANGED << lessons, planes, repairs, plane_state, events, current_annual, pc, err >>
    /\ UNCHANGED notInspection

\* line 165, plane_state[tail] of a tail that fleet.csv does not name
LessonKeyError ==
    /\ AtEvent
    /\ Event.etype = "lesson"
    /\ Event.tail \notin DOMAIN plane_state
    /\ pc' = "raised"
    /\ err' = "KeyError"
    /\ UNCHANGED << lessons, planes, repairs, plane_state, events, idx, current_annual,
                    current_hours, last_landing, grounded, annual, inspection, duration,
                    annotation, violations >>
    /\ UNCHANGED notInspection

\* lines 167 and 172, a comparison or a difference with a None takeoff or landing
LessonTypeError ==
    /\ AtEvent
    /\ Event.etype = "lesson"
    /\ Event.tail \in DOMAIN plane_state
    /\ LessonRaises(Event)
    /\ grounded' = IF GroundedOf(Event) = "TypeError" THEN FALSE
                   ELSE GroundedOf(Event) = "yes"
    /\ annual' = IF GroundedOf(Event) = "TypeError" THEN annual ELSE FALSE
    /\ pc' = "raised"
    /\ err' = "TypeError"
    /\ UNCHANGED << lessons, planes, repairs, plane_state, events, idx, current_annual,
                    current_hours, last_landing, inspection, duration, annotation,
                    violations >>
    /\ UNCHANGED notInspection

\* lines 199-201
AnnualEvent ==
    /\ AtEvent
    /\ Event.etype = "annual"
    /\ current_annual' = [ current_annual EXCEPT ![Event.tail] = Event.time ]
    /\ current_hours' = [ current_hours EXCEPT ![Event.tail] = 0 ]
    /\ idx' = idx + 1
    /\ UNCHANGED << lessons, planes, repairs, plane_state, events, last_landing, grounded,
                    annual, inspection, duration, annotation, violations, pc, err >>
    /\ UNCHANGED notInspection

\* lines 202-203
RepairEvent ==
    /\ AtEvent
    /\ Event.etype = "repair"
    /\ current_hours' = [ current_hours EXCEPT ![Event.tail] = 0 ]
    /\ idx' = idx + 1
    /\ UNCHANGED << lessons, planes, repairs, plane_state, events, current_annual,
                    last_landing, grounded, annual, inspection, duration, annotation,
                    violations, pc, err >>
    /\ UNCHANGED notInspection

\* line 204
Return ==
    /\ pc = "replay"
    /\ idx > Len(events)
    /\ pc' = "done"
    /\ UNCHANGED << lessons, planes, repairs, plane_state, events, idx, current_annual,
                    current_hours, last_landing, grounded, annual, inspection, duration,
                    annotation, violations, err >>
    /\ UNCHANGED notInspection

Next ==
    \/ BuildState
    \/ BuildTimeline
    \/ SortTypeError
    \/ LessonEvent
    \/ LessonKeyError
    \/ LessonTypeError
    \/ AnnualEvent
    \/ RepairEvent
    \/ Return

Spec == Init /\ [][Next]_vars

-----------------------------------------------------------------------------
(* The inspection scan: properties *)

\* a step of the replay loop that carries a lesson through to the state update
LessonReplayed == AtEvent /\ Event.etype = "lesson" /\ idx' = idx + 1

\* a step of the replay loop over a repair or an annual inspection
ShopEventReplayed == AtEvent /\ Event.etype # "lesson" /\ idx' = idx + 1

\* the event the loop has just left behind
HasLast == pc = "replay" /\ idx > 1
Last == events[idx - 1]
LastIsLesson == HasLast /\ Last.etype = "lesson"

BothParsed(e) == e.time # None /\ e.landing # None

\* the shop periods of the event's plane whose two dates parsed
ParsedPeriods(e) ==
    { k \in DOMAIN plane_state[e.tail].in_shop_periods :
        /\ plane_state[e.tail].in_shop_periods[k][1] # None
        /\ plane_state[e.tail].in_shop_periods[k][2] # None }
EntryOf(e, k) == Val(plane_state[e.tail].in_shop_periods[k][1])
ExitOf(e, k) == Val(plane_state[e.tail].in_shop_periods[k][2])

\* C1: a replayed lesson whose takeoff and landing parsed is flagged hundred-hour
\* overdue exactly when the plane's hours at takeoff are at least 100, or the hours
\* plus landing - takeoff are more than 100; landing with exactly 100 is not flagged.
C1_HundredHourRule ==
    [][ (LessonReplayed /\ BothParsed(Event)) =>
          (inspection' =
             (\/ current_hours[Event.tail] >= HourLimit
              \/ current_hours[Event.tail] + (Val(Event.landing) - Val(Event.time))
                   > HourLimit)) ]_vars

\* a lesson of positive duration has brought the counter to exactly 100, unflagged
C1_Witness ==
    /\ LastIsLesson
    /\ duration > 0
    /\ current_hours[Last.tail] = HourLimit
    /\ ~inspection

\* C2: a replayed lesson is flagged annual-overdue exactly when the whole days from
\* the plane's current last annual inspection to the takeoff are more than 365.
C2_AnnualRule ==
    [][ (LessonReplayed /\ Event.time # None /\ current_annual[Event.tail] # None) =>
          (annual' =
             ((Val(Event.time) - Val(current_annual[Event.tail])) \div HoursPerDay
                > YearDays)) ]_vars

\* a lesson took off 365 days and some hours after the annual inspection, unflagged
C2_Witness ==
    /\ LastIsLesson
    /\ Last.time # None
    /\ current_annual[Last.tail] # None
    /\ (Val(Last.time) - Val(current_annual[Last.tail])) \div HoursPerDay = YearDays
    /\ (Val(Last.time) - Val(current_annual[Last.tail])) % HoursPerDay > 0
    /\ ~annual

\* C3: a replayed lesson is flagged grounded, and its row labelled 'Grounded' or
\* 'Maintenance', whenever for some shop period of its plane the takeoff lies in
\* [entry, exit), the landing lies in (entry, exit], the flight spans the period, the
\* takeoff is exactly the entry or the landing is exactly the exit.
C3_GroundedWhenOverlapping ==
    [][ (LessonReplayed /\ BothParsed(Event)) =>
          \A k \in ParsedPeriods(Event) :
            LET t == Val(Event.time)
                l == Val(Event.landing)
                entry == EntryOf(Event, k)
                exit == ExitOf(Event, k)
            IN  (\/ (entry <= t /\ t < exit)
                 \/ (entry < l /\ l <= exit)
                 \/ (t <= entry /\ exit <= l)
                 \/ t = entry
                 \/ l = exit)
                => /\ grounded'
                   /\ annotation' \in { "Grounded", "Maintenance" }
                   /\ violations' = Append(violations,
                                      [ lesson |-> Event.lesson, reason |-> annotation' ]) ]_vars

\* a lesson that took off at the very entry of a shop period came out grounded
C3_Witness ==
    /\ LastIsLesson
    /\ BothParsed(Last)
    /\ \E k \in ParsedPeriods(Last) :
          /\ Val(Last.time) = EntryOf(Last, k)
          /\ Val(Last.landing) < ExitOf(Last, k)
    /\ grounded

\* C4 as claimed: a lesson landing exactly at the entry of a shop period is not in
\* the shop on account of that period.
C4_LandingAtEntryNotGrounded ==
    [][ (LessonReplayed /\ BothParsed(Event)) =>
          \A k \in ParsedPeriods(Event) :
            (Val(Event.landing) = EntryOf(Event, k))
            => ~InShop(Val(Event.time), Val(Event.landing),
                       EntryOf(Event, k), ExitOf(Event, k)) ]_vars

\* C4 as amended: a lesson that takes off before the entry of a shop period and lands
\* exactly at the entry is not in the shop on account of that period, when the period's
\* exit is after its entry; it is not flagged grounded when the plane has no other period.
C4_LandingAtEntryBeforeShop ==
    [][ (LessonReplayed /\ BothParsed(Event)) =>
          \A k \in ParsedPeriods(Event) :
            (/\ Val(Event.landing) = EntryOf(Event, k)
             /\ Val(Event.time) < EntryOf(Event, k)
             /\ EntryOf(Event, k) < ExitOf(Event, k))
            => /\ ~InShop(Val(Event.time), Val(Event.landing),
                          EntryOf(Event, k), ExitOf(Event, k))
               /\ (ParsedPeriods(Event) = { k } => ~grounded') ]_vars

\* a lesson that landed at the very entry of a later shop period came out not grounded
C4_Witness ==
    /\ LastIsLesson
    /\ BothParsed(Last)
    /\ \E k \in ParsedPeriods(Last) :
          /\ Val(Last.landing) = EntryOf(Last, k)
          /\ Val(Last.time) < EntryOf(Last, k)
          /\ EntryOf(Last, k) < ExitOf(Last, k)
    /\ ~grounded

FlagCount(a, i, g) ==
    (IF a THEN 1 ELSE 0) + (IF i THEN 1 ELSE 0) + (IF g THEN 1 ELSE 0)

\* C5: a replayed lesson with no flag emits no row; with exactly one flag it emits one
\* row labelled 'Annual', 'Inspection' or 'Grounded' after the flag; with two or three
\* flags it emits one row labelled 'Maintenance'.
C5_Labels ==
    [][ LessonReplayed =>
          LET n == FlagCount(annual', inspection', grounded')
              row(label) == [ lesson |-> Event.lesson, reason |-> label ]
          IN  /\ (n = 0) => (violations' = violations)
              /\ (n = 1 /\ annual') => (violations' = Append(violations, row("Annual")))
              /\ (n = 1 /\ inspection') =>
                    (violations' = Append(violations, row("Inspection")))
              /\ (n = 1 /\ grounded') => (violations' = Append(violations, row("Grounded")))
              /\ (n >= 2) => (violations' = Append(violations, row("Maintenance"))) ]_vars

\* a lesson with exactly two flags has been emitted as 'Maintenance'
C5_Witness ==
    /\ LastIsLesson
    /\ annual /\ inspection /\ ~grounded
    /\ Len(violations) > 0
    /\ violations[Len(violations)] = [ lesson |-> Last.lesson, reason |-> "Maintenance" ]

\* the descriptions of the model that are 'annual inspection' once trimmed and lower-cased
AnnualTexts == { "Annual Inspection", " annual inspection", "annual inspection" }

\* C6: replaying a repair sets the plane's hours to 0 and leaves its last annual date;
\* replaying an annual inspection sets the hours to 0 and the last annual date to the
\* shop-entry date; neither emits a row.  The event is an annual inspection exactly
\* when its repair row's description is 'annual inspection' once trimmed and lower-cased.
C6_ShopEvents ==
    [][ ShopEventReplayed =>
          /\ current_hours'[Event.tail] = 0
          /\ violations' = violations
          /\ \E i \in DOMAIN repairs :
                /\ repairs[i].tail = Event.tail
                /\ repairs[i].in_date = Event.time
                /\ (Event.etype = "annual") <=> (repairs[i].desc \in AnnualTexts)
                /\ current_annual'[Event.tail] =
                      IF repairs[i].desc \in AnnualTexts
                      THEN repairs[i].in_date
                      ELSE current_annual[Event.tail] ]_vars

\* an annual inspection has moved the plane's last annual date and zeroed its hours
C6_Witness ==
    /\ HasLast
    /\ Last.etype = "annual"
    /\ current_annual[Last.tail] = Last.time
    /\ current_annual[Last.tail] # plane_state[Last.tail].last_annual
    /\ current_hours[Last.tail] = 0
    /\ plane_state[Last.tail].hours_since_100 > 0

\* C8: a lesson or repair row whose tail fleet.csv does not name is ignored, and the
\* scan completes.
C8_UnknownTailIgnored ==
    (\/ \E i \in DOMAIN lessons : lessons[i].tail = UnknownTail
     \/ \E i \in DOMAIN repairs : repairs[i].tail = UnknownTail)
    => ~(pc = "raised" /\ err = "KeyError")

\* C9: the scan does not raise because of a timestamp that did not parse.
C9_UnparseableNeverRaises ==
    (\/ \E i \in DOMAIN lessons : lessons[i].takeoff = None \/ lessons[i].landing = None
     \/ \E i \in DOMAIN repairs : repairs[i].in_date = None \/ repairs[i].out_date = None)
    => ~(pc = "raised" /\ err = "TypeError")

-----------------------------------------------------------------------------
(* pilots.py *)

PILOT_INVALID == -1
PILOT_NOVICE == 0
PILOT_STUDENT == 1
PILOT_CERTIFIED == 2
PILOT_50_HOURS == 3

\* the date strings of students.csv: empty, a date, or text that does not parse
BlankStr == << >>
DateStr(t) == << t >>
GarbageStr == << 0, 0 >>

\* utils.str_to_time on a date string: the date, or None when the parser fails
StrToTime(str) == IF Len(str) = 1 THEN Some(str[1]) ELSE None

\* parse_date of get_certification reads takeoff.tzinfo for every string that is not
\* empty, and the four dates are parsed before any of them is compared
CertificationRaises(takeoff, student) ==
    /\ takeoff = None
    /\ \/ student.joined # BlankStr
       \/ student.solo # BlankStr
       \/ student.license # BlankStr
       \/ student.hours50 # BlankStr

\* get_certification with every threshold met only strictly after its date
get_certification_strict(takeoff, student) ==
    LET joined  == StrToTime(student.joined)
        solod   == StrToTime(student.solo)
        license == StrToTime(student.license)
        hours50 == StrToTime(student.hours50)
    IN  IF joined = None \/ takeoff = None THEN PILOT_INVALID
        ELSE IF Val(takeoff) < Val(joined) THEN PILOT_INVALID
        ELSE IF hours50 # None /\ Val(takeoff) > Val(hours50) THEN PILOT_50_HOURS
        ELSE IF license # None /\ Val(takeoff) > Val(license) THEN PILOT_CERTIFIED
        ELSE IF solod # None /\ Val(takeoff) > Val(solod) THEN PILOT_STUDENT
        ELSE PILOT_NOVICE

\* get_certification with the thresholds tried from the solo date upwards
get_certification_ascending(takeoff, student) ==
    LET joined  == StrToTime(student.joined)
        solod   == StrToTime(student.solo)
        license == StrToTime(student.license)
        hours50 == StrToTime(student.hours50)
    IN  IF joined = None \/ takeoff = None THEN PILOT_INVALID
        ELSE IF Val(takeoff) < Val(joined) THEN PILOT_INVALID
        ELSE IF solod # None /\ Val(takeoff) >= Val(solod) THEN PILOT_STUDENT
        ELSE IF license # None /\ Val(takeoff) >= Val(license) THEN PILOT_CERTIFIED
        ELSE IF hours50 # None /\ Val(takeoff) >= Val(hours50) THEN PILOT_50_HOURS
        ELSE PILOT_NOVICE

\* get_certification, for a call that does not raise (takeoff = None is left with
\* four empty strings, and joined is None)
get_certification(takeoff, student) ==
    LET joined  == StrToTime(student.joined)
        solod   == StrToTime(student.solo)
        license == StrToTime(student.license)
        hours50 == StrToTime(student.hours50)
    IN  IF joined = None \/ takeoff = None THEN PILOT_INVALID
        ELSE IF Val(takeoff) < Val(joined) THEN PILOT_INVALID
        ELSE IF hours50 # None /\ Val(takeoff) >= Val(hours50) THEN PILOT_50_HOURS
        ELSE IF license # None /\ Val(takeoff) >= Val(license) THEN PILOT_CERTIFIED
        ELSE IF solod # None /\ Val(takeoff) >= Val(solod) THEN PILOT_STUDENT
        ELSE PILOT_NOVICE

\* the body with a rating held only strictly after its date
HasDateStrict(takeoff, str) ==
    IF str = BlankStr THEN "False"
    ELSE IF takeoff = None THEN "AttributeError"
    ELSE IF StrToTime(str) = None THEN "False"
    ELSE IF Val(takeoff) > Val(StrToTime(str)) THEN "True" ELSE "False"

\* the body shared by has_instrument_rating, has_advanced_endorsement and
\* has_multiengine_endorsement: "True", "False" or "AttributeError"
HasDate(takeoff, str) ==
    IF str = BlankStr THEN "False"
    ELSE IF takeoff = None THEN "AttributeError"
    ELSE IF StrToTime(str) = None THEN "False"
    ELSE IF Val(takeoff) >= Val(StrToTime(str)) THEN "True" ELSE "False"

has_instrument_rating(takeoff, student) == HasDate(takeoff, student.instrument)
has_advanced_endorsement(takeoff, student) == HasDate(takeoff, student.advanced)
has_multiengine_endorsement(takeoff, student) == HasDate(takeoff, student.multiengine)

-----------------------------------------------------------------------------
(* endorsements.py *)

\* s.strip().upper() on the cells of the model
StripUpper(str) ==
    CASE str = "Yes" -> "YES"
      [] str = "No"  -> "NO"
      [] str = "ifr" -> "IFR"
      [] str = "vfr" -> "VFR"
      [] OTHER       -> str

teaches_multiengine(instructor) == StripUpper(instructor.mei) = "YES"
teaches_instrument(instructor) == StripUpper(instructor.cfii) = "YES"
is_advanced(plane) == StripUpper(plane.advanced) = "YES"
is_multiengine(plane) == StripUpper(plane.multiengine) = "YES"
is_ifr_capable(plane) == StripUpper(plane.capability) = "IFR"

\* what a dict lookup hands the loop: the row, None, or the [] of a lesson with no
\* instructor id
Found(row) == [ kind |-> "row", row |-> row ]
NotFound == [ kind |-> "None" ]
EmptyList == [ kind |-> "[]" ]

\* d.get(id) for the dict {row[0]: row for row in table}: the last row of that id
Lookup(table, id) ==
    LET hits == { i \in DOMAIN table : table[i].id = id } IN
    IF hits = {} THEN NotFound
    ELSE Found(table[CHOOSE i \in hits : \A j \in hits : j <= i])

\* instructor is not None and instructor != []
HasInstructor(instructor) == instructor.kind = "row"

\* bad_endorsement with the advanced endorsement of a student flying alone left out
bad_endorsement_multi_only(takeoff, student, instructor, plane) ==
    IF HasInstructor(instructor)
    THEN IF is_multiengine(plane) /\ ~teaches_multiengine(instructor.row)
         THEN "True" ELSE "False"
    ELSE LET multi == IF is_multiengine(plane)
                      THEN has_multiengine_endorsement(takeoff, student) ELSE "True"
         IN  IF multi = "AttributeError" THEN "AttributeError"
             ELSE IF multi = "False" THEN "True"
             ELSE "False"

\* bad_endorsement: "True", "False" or "AttributeError"
bad_endorsement(takeoff, student, instructor, plane) ==
    IF HasInstructor(instructor)
    THEN IF is_multiengine(plane) /\ ~teaches_multiengine(instructor.row)
         THEN "True" ELSE "False"
    ELSE LET multi == IF is_multiengine(plane)
                      THEN has_multiengine_endorsement(takeoff, student) ELSE "True"
             adv   == IF is_advanced(plane)
                      THEN has_advanced_endorsement(takeoff, student) ELSE "True"
         IN  IF multi = "AttributeError" THEN "AttributeError"
             ELSE IF multi = "False" THEN "True"
             ELSE IF adv = "AttributeError" THEN "AttributeError"
             ELSE IF adv = "False" THEN "True"
             ELSE "False"

\* bad_ifr: "True", "False" or "AttributeError"
bad_ifr(takeoff, student, instructor, plane) ==
    IF ~is_ifr_capable(plane) THEN "True"
    ELSE IF HasInstructor(instructor)
         THEN IF ~teaches_instrument(instructor.row) THEN "True" ELSE "False"
         ELSE LET rated == has_instrument_rating(takeoff, student) IN
              IF rated = "AttributeError" THEN "AttributeError"
              ELSE IF rated = "False" THEN "True"
              ELSE "False"

\* the three checks of one lesson, in the order the loop makes them:
\* [solo, endorsement, ifr], each "True", "False" or "AttributeError"
SoloCheck(lesson, student, instructor) ==
    IF instructor.kind # "[]" THEN "False"
    ELSE IF CertificationRaises(lesson.takeoff, student) THEN "AttributeError"
    ELSE IF get_certification(lesson.takeoff, student) < PILOT_STUDENT THEN "True"
    ELSE "False"

IfrCheck(lesson, student, instructor, plane) ==
    IF StripUpper(lesson.filed) # "IFR" THEN "False"
    ELSE bad_ifr(lesson.takeoff, student, instructor, plane)

\* the if/elif chain of lines 270-279; NoLabel stands for "continue"
Credentials(s, e, i) ==
    IF s /\ (e \/ i) THEN "Credentials"
    ELSE IF s THEN "Solo"
    ELSE IF e THEN "Endorsement"
    ELSE IF i THEN "IFR"
    ELSE NoLabel

-----------------------------------------------------------------------------
(* The datasets of the endorsement scan *)

MaxEndorseLessons == 1

StudentRows ==
    { [ id |-> "S1", joined |-> DateStr(0), solo |-> so, license |-> lic,
        hours50 |-> BlankStr, instrument |-> ins, advanced |-> adv, multiengine |-> mul ] :
        so \in { BlankStr, DateStr(1), DateStr(2) },
        lic \in { BlankStr, DateStr(1) },
        ins \in { BlankStr, DateStr(1) },
        adv \in { BlankStr, DateStr(1) },
        mul \in { GarbageStr, DateStr(1) } }

InstructorRows ==
    { [ id |-> "I1", cfii |-> c, mei |-> m ] : c \in { "Yes", "No" }, m \in { "Yes", "No" } }

PlaneRows ==
    { [ id |-> "P1", capability |-> c, advanced |-> a, multiengine |-> m ] :
        c \in { "VFR", "IFR" }, a \in { "Yes", "No" }, m \in { "Yes", "No" } }

\* the header row of lessons.csv, which the loop does not skip
LessonHeader ==
    [ student |-> "STUDENT", plane |-> "AIRPLANE", instructor |-> "INSTRUCTOR",
      takeoff |-> None, filed |-> "FILED" ]

EndorseLessonRows ==
    { [ student |-> "S1", plane |-> "P1", instructor |-> i, takeoff |-> Some(1),
        filed |-> f ] : i \in { "", "I1" }, f \in { "VFR", "IFR" } }
    \cup { [ student |-> "S9", plane |-> "P1", instructor |-> "", takeoff |-> Some(1),
             filed |-> "VFR" ],
           [ student |-> "S1", plane |-> "P9", instructor |-> "", takeoff |-> Some(1),
             filed |-> "VFR" ],
           [ student |-> "S1", plane |-> "P1", instructor |-> "I9", takeoff |-> Some(1),
             filed |-> "IFR" ],
           [ student |-> "S1", plane |-> "P1", instructor |-> "", takeoff |-> None,
             filed |-> "VFR" ],
           [ student |-> "S1", plane |-> "P1", instructor |-> "I1", takeoff |-> None,
             filed |-> "IFR" ] }

-----------------------------------------------------------------------------
(* list_endorsement_violations as a state machine *)

EndorseInit ==
    /\ lessons \in { << LessonHeader >> \o ls :
                       ls \in SeqsUpTo(EndorseLessonRows, MaxEndorseLessons) }
    /\ students \in { << r >> : r \in StudentRows }
    /\ instructors \in { << r >> : r \in InstructorRows }
    /\ planes \in { << r >> : r \in PlaneRows }
    /\ idx = 1
    /\ solo = FALSE
    /\ endorsement = FALSE
    /\ ifr = FALSE
    /\ annotation = NoLabel
    /\ violations = << >>
    /\ pc = "scan"
    /\ err = "none"
    /\ repairs = << >>
    /\ plane_state = << >>
    /\ events = << >>
    /\ current_annual = << >>
    /\ current_hours = << >>
    /\ last_landing = << >>
    /\ grounded = FALSE
    /\ annual = FALSE
    /\ inspection = FALSE
    /\ duration = 0
    /\ minimums = << >>
    /\ weather = << >>
    /\ daycycle = << >>
    /\ mins = << >>
    /\ weather_report = << >>
    /\ violation = NoLabel
    /\ args = << >>
    /\ result = << >>
    /\ run = 1
    /\ previous = << >>
    /\ directory = << >>
    /\ stage = "idle"
    /\ all_violations = << >>

AtLesson == pc = "scan" /\ idx <= Len(lessons)
Lesson == lessons[idx]

\* lines 244-251
StudentOf(lesson) == Lookup(students, lesson.student)
PlaneOf(lesson) == Lookup(planes, lesson.plane)
InstructorOf(lesson) ==
    IF lesson.instructor # "" THEN Lookup(instructors, lesson.instructor) ELSE EmptyList

\* line 253
Skipped(lesson) == StudentOf(lesson).kind = "None" \/ PlaneOf(lesson).kind = "None"

SoloOf(lesson) == SoloCheck(lesson, StudentOf(lesson).row, InstructorOf(lesson))
EndorsementOf(lesson) ==
    bad_endorsement(lesson.takeoff, StudentOf(lesson).row, InstructorOf(lesson),
                    PlaneOf(lesson).row)
IfrOf(lesson) ==
    IfrCheck(lesson, StudentOf(lesson).row, InstructorOf(lesson), PlaneOf(lesson).row)

EndorseRaises(lesson) ==
    \/ SoloOf(lesson) = "AttributeError"
    \/ EndorsementOf(lesson) = "AttributeError"
    \/ IfrOf(lesson) = "AttributeError"

\* lines 252-254
EndorseSkip ==
    /\ AtLesson
    /\ Skipped(Lesson)
    /\ idx' = idx + 1
    /\ UNCHANGED << lessons, planes, annotation, violations, pc, err, endorseOnly >>
    /\ UNCHANGED notEndorsement

\* lines 255-280, a lesson with a violation
EndorseFlag ==
    /\ AtLesson
    /\ ~Skipped(Lesson)
    /\ ~EndorseRaises(Lesson)
    /\ LET s == SoloOf(Lesson) = "True"
           e == EndorsementOf(Lesson) = "True"
           i == IfrOf(Lesson) = "True"
       IN  /\ Credentials(s, e, i) # NoLabel
           /\ solo' = s
           /\ endorsement' = e
           /\ ifr' = i
           /\ annotation' = Credentials(s, e, i)
           /\ violations' = Append(violations,
                                   [ lesson |-> Lesson, reason |-> Credentials(s, e, i) ])
    /\ idx' = idx + 1
    /\ UNCHANGED << lessons, planes, pc, err, students, instructors >>
    /\ UNCHANGED notEndorsement

\* lines 255-279, a lesson with no violation
EndorseClean ==
    /\ AtLesson
    /\ ~Skipped(Lesson)
    /\ ~EndorseRaises(Lesson)
    /\ LET s == SoloOf(Lesson) = "True"
           e == EndorsementOf(Lesson) = "True"
           i == IfrOf(Lesson) = "True"
       IN  /\ Credentials(s, e, i) = NoLabel
           /\ solo' = s
           /\ endorsement' = e
           /\ ifr' = i
    /\ idx' = idx + 1
    /\ UNCHANGED << lessons, planes, annotation, violations, pc, err, students, instructors >>
    /\ UNCHANGED notEndorsement

\* lines 261-267, takeoff.tzinfo of a takeoff that did not parse
EndorseAttributeError ==
    /\ AtLesson
    /\ ~Skipped(Lesson)
    /\ EndorseRaises(Lesson)
    /\ solo' = (SoloOf(Lesson) = "True")
    /\ endorsement' = (SoloOf(Lesson) # "AttributeError"
                       /\ EndorsementOf(Lesson) = "True")
    /\ ifr' = FALSE
    /\ pc' = "raised"
    /\ err' = "AttributeError"
    /\ UNCHANGED << lessons, planes, idx, annotation, violations, students, instructors >>
    /\ UNCHANGED notEndorsement

\* line 281
EndorseReturn ==
    /\ pc = "scan"
    /\ idx > Len(lessons)
    /\ pc' = "done"
    /\ UNCHANGED << lessons, planes, idx, annotation, violations, err, endorseOnly >>
    /\ UNCHANGED notEndorsement

EndorseNext ==
    \/ EndorseSkip
    \/ EndorseFlag
    \/ EndorseClean
    \/ EndorseAttributeError
    \/ EndorseReturn

SpecEndorse == EndorseInit /\ [][EndorseNext]_vars

-----------------------------------------------------------------------------
(* The endorsement scan: properties *)

\* a step of the loop that carries a lesson through the three checks
LessonChecked == AtLesson /\ ~Skipped(Lesson) /\ idx' = idx + 1

\* C10: with the three problems solo, endorsement and IFR of a checked lesson: more
\* than one gives the label 'Credentials', exactly one gives 'Solo', 'Endorsement' or
\* 'IFR', none gives no row.
C10_CredentialsLabel ==
    [][ LessonChecked =>
          LET n == FlagCount(solo', endorsement', ifr')
              row(label) == [ lesson |-> Lesson, reason |-> label ]
          IN  /\ (n = 0) => (violations' = violations)
              /\ (n = 1 /\ solo') => (violations' = Append(violations, row("Solo")))
              /\ (n = 1 /\ endorsement') =>
                    (violations' = Append(violations, row("Endorsement")))
              /\ (n = 1 /\ ifr') => (violations' = Append(violations, row("IFR")))
              /\ (n > 1) => (violations' = Append(violations, row("Credentials"))) ]_vars

\* a lesson that names a student, a plane or an instructor that no table holds
MissingReference(lesson) ==
    \/ Lookup(students, lesson.student) = NotFound
    \/ Lookup(planes, lesson.plane) = NotFound
    \/ (lesson.instructor # "" /\ Lookup(instructors, lesson.instructor) = NotFound)

\* C11: a lesson of the endorsement scan that references an unknown student, an
\* unknown plane, or a non-empty instructor id that matches no instructor is skipped:
\* the step emits no row and the scan does not raise.
C11_MissingReferenceSkipped ==
    [][ (AtLesson /\ MissingReference(Lesson)) =>
          (violations' = violations /\ pc' # "raised") ]_vars

-----------------------------------------------------------------------------
(* utils.py: get_for_id and daytime *)

\* get_for_id: the first row of the table with that id, or None
get_for_id(id, table) ==
    LET hits == { i \in DOMAIN table : table[i].id = id } IN
    IF hits = {} THEN NotFound
    ELSE Found(table[CHOOSE i \in hits : \A j \in hits : i <= j])

\* daytime: "True", "False", or "None" when the daycycle has no timezone or no
\* sunrise and sunset for the date; the comparison is strict on both sides
daytime(time, cycle) ==
    IF ~cycle.timezone \/ cycle.sun = None THEN "None"
    ELSE IF Val(cycle.sun)[1] < time /\ time < Val(cycle.sun)[2] THEN "True"
    ELSE "False"

-----------------------------------------------------------------------------
(* pilots.py: get_minimums *)

\* lines 402-414
CategoryMatches(cat, cert, instructed) ==
    CASE cat = "Dual"      -> instructed
      [] cat = "50 Hours"  -> cert = PILOT_50_HOURS
      [] cat = "Certified" -> cert >= PILOT_CERTIFIED
      [] cat = "Student"   -> cert >= PILOT_STUDENT
      [] OTHER             -> TRUE

\* lines 417-421
ConditionsMatch(cond, vfr) == IF vfr THEN cond = "VMC" ELSE cond = "IMC"

\* the area axis with 'Local' matched by the flight area 'Local' only
AreaMatchesExact(area_val, area) ==
    CASE area_val = "Any" -> TRUE
      [] OTHER            -> area_val = area

\* lines 424-432
AreaMatches(area_val, area) ==
    CASE area_val = "Any"   -> TRUE
      [] area_val = "Local" -> area \in { "Pattern", "Practice Area", "Local" }
      [] OTHER              -> area_val = area

\* lines 435-439; is_day is the truth value of what daytime returned
TimeMatches(time_val, is_day) == IF is_day THEN time_val = "Day" ELSE time_val = "Night"

RowMatches(row, cert, area, instructed, vfr, is_day) ==
    /\ CategoryMatches(row.category, cert, instructed)
    /\ ConditionsMatch(row.conditions, vfr)
    /\ AreaMatches(row.area, area)
    /\ TimeMatches(row.time, is_day)

\* get_best_value over the column of the matching rows
SetMax(S) == CHOOSE x \in S : \A y \in S : y <= x
SetMin(S) == CHOOSE x \in S : \A y \in S : x <= y
\* the best value taken as the highest for every column
get_best_value_highest(data, column, maximum) ==
    SetMax({ data[i][column] : i \in DOMAIN data })

get_best_value(data, column, maximum) ==
    LET values == { data[i][column] : i \in DOMAIN data } IN
    IF maximum THEN SetMax(values) ELSE SetMin(values)

\* get_minimums: None, or << ceiling, visibility, wind, crosswind >>
get_minimums(cert, area, instructed, vfr, is_day, table) ==
    LET data == SubSeq(table, 2, Len(table))
        matches == SelectSeq(data, LAMBDA row :
                                RowMatches(row, cert, area, instructed, vfr, is_day))
    IN  IF matches = << >> THEN None
        ELSE << get_best_value(matches, "ceiling", FALSE),
                get_best_value(matches, "visibility", FALSE),
                get_best_value(matches, "wind", TRUE),
                get_best_value(matches, "crosswind", TRUE) >>

-----------------------------------------------------------------------------
(* violations.py *)

\* a measurement is a record tagged by its kind: a word ("unavailable", "calm",
\* "clear"), "dict" or "list" for a structured reading, "missing" for the None that
\* weather.get returns for a report without the measurement

\* bad_visibility with a value equal to the minimum counted as a violation
bad_visibility_inclusive(visibility, minimum) ==
    IF visibility.kind = "unavailable" THEN TRUE
    ELSE IF visibility.kind = "dict"
         THEN LET value == IF visibility.minimum # None THEN Val(visibility.minimum)
                           ELSE visibility.prevailing
              IN  IF visibility.units = "FT" THEN value <= minimum * 5280
                  ELSE value <= minimum
         ELSE TRUE

\* bad_visibility; value / 5280.0 < minimum is compared without the division
bad_visibility(visibility, minimum) ==
    IF visibility.kind = "unavailable" THEN TRUE
    ELSE IF visibility.kind = "dict"
         THEN LET value == IF visibility.minimum # None THEN Val(visibility.minimum)
                           ELSE visibility.prevailing
              IN  IF visibility.units = "FT" THEN value < minimum * 5280
                  ELSE value < minimum
         ELSE TRUE

\* bad_winds; speed * 1.94384 > maxwind is compared in units of 1/100000 knot
bad_winds(winds, maxwind, maxcross) ==
    IF winds.kind = "calm" THEN FALSE
    ELSE IF winds.kind = "unavailable" THEN TRUE
    ELSE IF winds.kind = "dict"
         THEN LET speed == winds.speed
                  gusts == IF winds.gusts # None THEN Val(winds.gusts) ELSE speed
                  crosswind == IF winds.crosswind # None THEN Val(winds.crosswind) ELSE 0
                  factor == IF winds.units = "MPS" THEN 194384 ELSE 100000
                  worst_wind == IF speed >= gusts THEN speed ELSE gusts
              IN  \/ worst_wind * factor > maxwind * 100000
                  \/ crosswind * factor > maxcross * 100000
         ELSE TRUE

\* bad_ceiling
bad_ceiling(ceiling, minimum) ==
    IF ceiling.kind = "clear" THEN FALSE
    ELSE IF ceiling.kind = "unavailable" THEN TRUE
    ELSE IF ceiling.kind = "list"
         THEN LET relevant_heights ==
                      { ceiling.layers[i].height : i \in
                          { j \in DOMAIN ceiling.layers :
                              /\ ceiling.layers[j].type \in
                                    { "broken", "overcast", "indefinite ceiling" }
                              /\ ceiling.layers[j].units = "FT" } }
              IN  IF relevant_heights = {} THEN FALSE
                  ELSE SetMin(relevant_heights) < minimum
         ELSE TRUE

\* get_weather_report: None or Some(report). The exact match is on the text of the
\* key: a key is "iso" when it is written as takeoff.isoformat() writes that time,
\* "alt" when it parses to its time but is written otherwise, "garbage" when it does
\* not parse. The search keeps the first of the latest keys before takeoff.
get_weather_report(takeoff, reports) ==
    LET exact == { i \in DOMAIN reports :
                     reports[i].key.form = "iso" /\ reports[i].key.time = takeoff }
        before == { i \in DOMAIN reports :
                      reports[i].key.form # "garbage" /\ reports[i].key.time < takeoff }
        closest == CHOOSE i \in before :
                      \A j \in before :
                         \/ reports[j].key.time < reports[i].key.time
                         \/ (reports[j].key.time = reports[i].key.time /\ i <= j)
    IN  IF exact # {} THEN Some(reports[CHOOSE i \in exact : TRUE].report)
        ELSE IF before # {} THEN Some(reports[closest].report)
        ELSE None

\* count = sum(1 for v in violations if v)
CountTrue(flags) == Cardinality({ i \in DOMAIN flags : flags[i] })

\* the chain with 'Weather' kept for three problems
WeatherLabelAllThree(vis, wind, ceil) ==
    IF CountTrue(<< vis, wind, ceil >>) = 0 THEN ""
    ELSE IF CountTrue(<< vis, wind, ceil >>) > 2 THEN "Weather"
    ELSE IF vis THEN "Visibility"
    ELSE IF wind THEN "Winds"
    ELSE "Ceiling"

\* the if chain that follows the count
WeatherLabel(vis, wind, ceil) ==
    IF CountTrue(<< vis, wind, ceil >>) = 0 THEN ""
    ELSE IF CountTrue(<< vis, wind, ceil >>) > 1 THEN "Weather"
    ELSE IF vis THEN "Visibility"
    ELSE IF wind THEN "Winds"
    ELSE "Ceiling"

\* get_weather_violation: the label, or "TypeError" when the unpacking of line 412
\* is handed None
get_weather_violation(report, minimum) ==
    IF report = None THEN "Unknown"
    ELSE IF minimum = None THEN "TypeError"
    ELSE WeatherLabel(bad_visibility(Val(report).visibility, minimum[2]),
                      bad_winds(Val(report).wind, minimum[3], minimum[4]),
                      bad_ceiling(Val(report).sky, minimum[1]))

-----------------------------------------------------------------------------
(* The datasets of the weather scan *)

MaxWeatherLessons == 1

\* one day: the sun rises at 6 and sets at 18
Sunrise == HoursPerDay \div 4
Sunset == 3 * Sunrise

WeatherStudent(joined, solod, license, hours50) ==
    [ id |-> "S1", joined |-> joined, solo |-> solod, license |-> license,
      hours50 |-> hours50, instrument |-> BlankStr, advanced |-> BlankStr,
      multiengine |-> BlankStr ]

\* a novice, a student, a certified pilot, a pilot with 50 hours, and a pilot who
\* joins after the lessons
WeatherStudents ==
    { << WeatherStudent(DateStr(0), BlankStr, BlankStr, BlankStr) >>,
      << WeatherStudent(DateStr(0), DateStr(1), BlankStr, BlankStr) >>,
      << WeatherStudent(DateStr(0), DateStr(1), DateStr(2), BlankStr) >>,
      << WeatherStudent(DateStr(0), DateStr(1), DateStr(2), DateStr(3)) >>,
      << WeatherStudent(DateStr(Sunset), BlankStr, BlankStr, BlankStr) >> }

WeatherLessonHeader ==
    [ student |-> "STUDENT", instructor |-> "INSTRUCTOR", takeoff |-> None,
      filed |-> "FILED", area |-> "AREA", columns |-> 7 ]

WeatherLessonRows ==
    { [ student |-> "S1", instructor |-> i, takeoff |-> Some(Sunrise + 1), filed |-> f,
        area |-> a, columns |-> 7 ] :
        i \in { "", "I1" }, f \in { "VFR", "IFR" }, a \in { "Pattern", "Cross Country" } }
    \cup { [ student |-> "S1", instructor |-> "", takeoff |-> Some(Sunrise),
             filed |-> f, area |-> "Pattern", columns |-> 7 ] : f \in { "VFR", "IFR" } }
    \cup { [ student |-> "S9", instructor |-> "", takeoff |-> Some(Sunrise + 1),
             filed |-> "VFR", area |-> "Pattern", columns |-> 7 ],
           [ student |-> "S1", instructor |-> "", takeoff |-> Some(Sunrise + 1),
             filed |-> "VFR", area |-> "", columns |-> 6 ],
           [ student |-> "S1", instructor |-> "I1", takeoff |-> None,
             filed |-> "VFR", area |-> "Pattern", columns |-> 7 ] }

MinimumsHeader ==
    [ category |-> "CATEGORY", conditions |-> "CONDITIONS", area |-> "AREA",
      time |-> "TIME", ceiling |-> "CEILING", visibility |-> "VISIBILITY",
      wind |-> "WIND", crosswind |-> "CROSSWIND" ]

MinimumsRow(cat, cond, area, time, ceiling, visibility, wind, crosswind) ==
    [ category |-> cat, conditions |-> cond, area |-> area, time |-> time,
      ceiling |-> ceiling, visibility |-> visibility, wind |-> wind,
      crosswind |-> crosswind ]

StudentDay == MinimumsRow("Student", "VMC", "Pattern", "Day", 2000, 5, 20, 8)
DualDay == MinimumsRow("Dual", "VMC", "Any", "Day", 1000, 10, 30, 5)
CertifiedNight == MinimumsRow("Certified", "IMC", "Local", "Night", 500, 1, 10, 10)
FiftyNight == MinimumsRow("50 Hours", "VMC", "Cross Country", "Night", 3000, 3, 15, 15)

MinimumsTables ==
    { << MinimumsHeader >>,
      << MinimumsHeader, StudentDay >>,
      << MinimumsHeader, StudentDay, DualDay >>,
      << MinimumsHeader, CertifiedNight, FiftyNight >>,
      << MinimumsHeader, StudentDay, DualDay, CertifiedNight, FiftyNight >> }

Word(w) == [ kind |-> w ]
Miles(prevailing) ==
    [ kind |-> "dict", prevailing |-> prevailing, minimum |-> None, units |-> "SM" ]
Feet(prevailing, minimum) ==
    [ kind |-> "dict", prevailing |-> prevailing, minimum |-> Some(minimum),
      units |-> "FT" ]
Wind(speed, gusts, crosswind, units) ==
    [ kind |-> "dict", speed |-> speed, gusts |-> gusts, crosswind |-> crosswind,
      units |-> units ]
Layers(layers) == [ kind |-> "list", layers |-> layers ]
Layer(type, height) == [ type |-> type, height |-> height, units |-> "FT" ]

Report(visibility, wind, sky) ==
    [ visibility |-> visibility, wind |-> wind, sky |-> sky ]

Reports ==
    { Report(Miles(10), Word("calm"), Word("clear")),
      Report(Word("unavailable"), Word("calm"), Word("clear")),
      Report(Miles(10), Word("unavailable"), Word("clear")),
      Report(Miles(10), Word("calm"), Word("unavailable")),
      Report(Word("unavailable"), Word("unavailable"), Word("unavailable")),
      Report(Feet(52800, 26400), Wind(10, Some(16), None, "KT"),
             Layers(<< Layer("few", 400), Layer("broken", 1500) >>)),
      Report(Miles(5), Wind(10, None, Some(4), "MPS"), Word("missing")) }

Key(time, form) == [ time |-> time, form |-> form ]
Entry(key, report) == [ key |-> key, report |-> report ]

WeatherTables ==
    { << >> }
    \cup { << Entry(Key(t, "iso"), r) >> :
             t \in { Sunrise - 1, Sunrise, Sunrise + 2 }, r \in Reports }
    \cup { << Entry(Key(Sunrise + 1, "alt"), r) >> : r \in Reports }
    \cup { << Entry(Key(Sunrise - 2, "iso"), r1), Entry(Key(0, "garbage"), r2),
              Entry(Key(Sunrise - 1, "alt"), r2) >> :
             r1 \in { Report(Miles(10), Word("calm"), Word("clear")) }, r2 \in Reports }

Daycycles ==
    { [ timezone |-> TRUE, sun |-> Some(<< Sunrise, Sunset >>) ],
      [ timezone |-> TRUE, sun |-> None ],
      [ timezone |-> FALSE, sun |-> Some(<< Sunrise, Sunset >>) ] }

-----------------------------------------------------------------------------
(* list_weather_violations as a state machine *)

WeatherInit ==
    /\ lessons \in { << WeatherLessonHeader >> \o ls :
                       ls \in SeqsUpTo(WeatherLessonRows, MaxWeatherLessons) }
    /\ students \in WeatherStudents
    /\ minimums \in MinimumsTables
    /\ weather \in WeatherTables
    /\ daycycle \in Daycycles
    /\ idx = 2
    /\ mins = None
    /\ weather_report = None
    /\ violation = NoLabel
    /\ args = << >>
    /\ result = << >>
    /\ run = 1
    /\ previous = << >>
    /\ directory = << >>
    /\ stage = "idle"
    /\ all_violations = << >>
    /\ violations = << >>
    /\ pc = "scan"
    /\ err = "none"
    /\ planes = << >>
    /\ annotation = NoLabel
    /\ instructors = << >>
    /\ solo = FALSE
    /\ endorsement = FALSE
    /\ ifr = FALSE
    /\ repairs = << >>
    /\ plane_state = << >>
    /\ events = << >>
    /\ current_annual = << >>
    /\ current_hours = << >>
    /\ last_landing = << >>
    /\ grounded = FALSE
    /\ annual = FALSE
    /\ inspection = FALSE
    /\ duration = 0

AtWeatherLesson == pc = "scan" /\ idx <= Len(lessons)
WeatherLesson == lessons[idx]

\* lines 500-512
WeatherSkipped(lesson) ==
    \/ lesson.columns < 7
    \/ get_for_id(lesson.student, students).kind = "None"

\* lines 515-532, for a lesson whose takeoff parsed
MinimumsOf(lesson) ==
    LET student_row == get_for_id(lesson.student, students).row
        takeoff == lesson.takeoff
        instructed == lesson.instructor # ""
        vfr == StripUpper(lesson.filed) = "VFR"
        is_day == daytime(Val(takeoff), daycycle) = "True"
        cert == get_certification(takeoff, student_row)
    IN  get_minimums(cert, lesson.area, instructed, vfr, is_day, minimums)

ReportOf(lesson) == get_weather_report(Val(lesson.takeoff), weather)

ViolationOf(lesson) == get_weather_violation(ReportOf(lesson), MinimumsOf(lesson))

\* lines 498-512
WeatherSkip ==
    /\ AtWeatherLesson
    /\ WeatherSkipped(WeatherLesson)
    /\ idx' = idx + 1
    /\ UNCHANGED << lessons, students, violations, pc, err, weatherOnly >>
    /\ UNCHANGED notWeather

\* line 526: utils.daytime reads time.year of a takeoff that did not parse
WeatherAttributeError ==
    /\ AtWeatherLesson
    /\ ~WeatherSkipped(WeatherLesson)
    /\ WeatherLesson.takeoff = None
    /\ pc' = "raised"
    /\ err' = "AttributeError"
    /\ UNCHANGED << lessons, students, idx, violations, weatherOnly >>
    /\ UNCHANGED notWeather

\* line 538: get_weather_violation unpacks the None of get_minimums
WeatherTypeError ==
    /\ AtWeatherLesson
    /\ ~WeatherSkipped(WeatherLesson)
    /\ WeatherLesson.takeoff # None
    /\ ViolationOf(WeatherLesson) = "TypeError"
    /\ mins' = MinimumsOf(WeatherLesson)
    /\ weather_report' = ReportOf(WeatherLesson)
    /\ pc' = "raised"
    /\ err' = "TypeError"
    /\ UNCHANGED << lessons, students, idx, violations, minimums, weather, daycycle,
                    violation >>
    /\ UNCHANGED notWeather

\* lines 515-542, a lesson with a label
WeatherFlag ==
    /\ AtWeatherLesson
    /\ ~WeatherSkipped(WeatherLesson)
    /\ WeatherLesson.takeoff # None
    /\ ViolationOf(WeatherLesson) \notin { "TypeError", "" }
    /\ mins' = MinimumsOf(WeatherLesson)
    /\ weather_report' = ReportOf(WeatherLesson)
    /\ violation' = ViolationOf(WeatherLesson)
    /\ violations' = Append(violations, [ lesson |-> WeatherLesson,
                                          reason |-> ViolationOf(WeatherLesson) ])
    /\ idx' = idx + 1
    /\ UNCHANGED << lessons, students, pc, err, minimums, weather, daycycle >>
    /\ UNCHANGED notWeather

\* lines 515-541, a lesson with the empty label
WeatherClean ==
    /\ AtWeatherLesson
    /\ ~WeatherSkipped(WeatherLesson)
    /\ WeatherLesson.takeoff # None
    /\ ViolationOf(WeatherLesson) = ""
    /\ mins' = MinimumsOf(WeatherLesson)
    /\ weather_report' = ReportOf(WeatherLesson)
    /\ violation' = ""
    /\ idx' = idx + 1
    /\ UNCHANGED << lessons, students, violations, pc, err, minimums, weather, daycycle >>
    /\ UNCHANGED notWeather

\* line 544
WeatherReturn ==
    /\ pc = "scan"
    /\ idx > Len(lessons)
    /\ pc' = "done"
    /\ UNCHANGED << lessons, students, idx, violations, err, weatherOnly >>
    /\ UNCHANGED notWeather

WeatherNext ==
    \/ WeatherSkip
    \/ WeatherAttributeError
    \/ WeatherTypeError
    \/ WeatherFlag
    \/ WeatherClean
    \/ WeatherReturn

SpecWeather == WeatherInit /\ [][WeatherNext]_vars

-----------------------------------------------------------------------------
(* The weather scan: properties *)

\* a step of the loop on a lesson that reaches get_minimums
MinimumsResolved ==
    /\ AtWeatherLesson
    /\ ~WeatherSkipped(WeatherLesson)
    /\ WeatherLesson.takeoff # None
    /\ mins' = MinimumsOf(WeatherLesson)

\* C7: a lesson for which get_minimums returns None does not make the weather scan
\* raise: the lesson is labelled 'Unknown', with or without a weather report.
C7_NoMinimumsIsUnknown ==
    [][ (MinimumsResolved /\ mins' = None) =>
          /\ pc' = "scan"
          /\ violations' = Append(violations, [ lesson |-> WeatherLesson,
                                                reason |-> "Unknown" ]) ]_vars

\* a step of the loop in which get_weather_violation returned
LabelReturned == MinimumsResolved /\ pc' = "scan"

WeatherLabels == { "", "Visibility", "Winds", "Ceiling", "Weather", "Unknown" }

\* C12: get_weather_violation returns one of '', 'Visibility', 'Winds', 'Ceiling',
\* 'Weather', 'Unknown': 'Unknown' iff there is no weather reading; otherwise '' iff
\* none of bad_visibility, bad_winds, bad_ceiling holds, the category's label iff
\* exactly one holds, 'Weather' iff two or more hold. The scan emits a row for the
\* lesson iff the label is not empty.
C12_WeatherLabels ==
    [][ LabelReturned =>
          LET r == weather_report'
              m == mins'
              found == r # None
              vis == found /\ bad_visibility(Val(r).visibility, m[2])
              wind == found /\ bad_winds(Val(r).wind, m[3], m[4])
              ceil == found /\ bad_ceiling(Val(r).sky, m[1])
              n == FlagCount(vis, wind, ceil)
          IN  /\ violation' \in WeatherLabels
              /\ (violation' = "Unknown") <=> ~found
              /\ found => /\ (violation' = "") <=> (n = 0)
                          /\ (violation' = "Visibility") <=> (n = 1 /\ vis)
                          /\ (violation' = "Winds") <=> (n = 1 /\ wind)
                          /\ (violation' = "Ceiling") <=> (n = 1 /\ ceil)
                          /\ (violation' = "Weather") <=> (n >= 2)
              /\ IF violation' = "" THEN violations' = violations
                 ELSE violations' = Append(violations, [ lesson |-> WeatherLesson,
                                                         reason |-> violation' ]) ]_vars

\* a lesson labelled 'Weather' for two problems of its report, next to its minimums
C12_Witness ==
    /\ pc = "done"
    /\ Len(violations) = 1
    /\ violations[1].reason = "Weather"
    /\ weather_report # None
    /\ mins # None
    /\ ~bad_visibility(Val(weather_report).visibility, mins[2])
    /\ bad_winds(Val(weather_report).wind, mins[3], mins[4])
    /\ bad_ceiling(Val(weather_report).sky, mins[1])

-----------------------------------------------------------------------------
(* Single calls of the functions of pilots.py and violations.py *)

\* no scan is running
ScansIdle ==
    /\ lessons = << >>
    /\ planes = << >>
    /\ students = << >>
    /\ instructors = << >>
    /\ idx = 0
    /\ annotation = NoLabel
    /\ violations = << >>
    /\ solo = FALSE
    /\ endorsement = FALSE
    /\ ifr = FALSE
    /\ repairs = << >>
    /\ plane_state = << >>
    /\ events = << >>
    /\ current_annual = << >>
    /\ current_hours = << >>
    /\ last_landing = << >>
    /\ grounded = FALSE
    /\ annual = FALSE
    /\ inspection = FALSE
    /\ duration = 0
    /\ minimums = << >>
    /\ weather = << >>
    /\ daycycle = << >>
    /\ mins = << >>
    /\ weather_report = << >>
    /\ violation = NoLabel
    /\ run = 1
    /\ previous = << >>
    /\ directory = << >>
    /\ stage = "idle"
    /\ all_violations = << >>

Tiers == { PILOT_INVALID, PILOT_NOVICE, PILOT_STUDENT, PILOT_CERTIFIED, PILOT_50_HOURS }

-----------------------------------------------------------------------------
(* get_minimums, one call *)

MaxPolicyRows == 2

Categories == { "Dual", "Student", "Certified", "50 Hours" }
Conditions == { "VMC", "IMC" }
RowAreas == { "Any", "Local", "Pattern", "Cross Country" }
FlightAreas == { "Pattern", "Practice Area", "Local", "Cross Country" }
Times == { "Day", "Night" }

StudentLocal == MinimumsRow("Student", "VMC", "Local", "Day", 1500, 3, 25, 10)
CertifiedAny == MinimumsRow("Certified", "VMC", "Any", "Night", 1000, 8, 35, 12)

\* rows with limits that differ column by column
PolicyRows == { StudentDay, DualDay, CertifiedNight, FiftyNight, StudentLocal, CertifiedAny }

\* one row for every combination of the four axes
AxisRows ==
    { MinimumsRow(cat, cond, area, time, 1000, 3, 20, 8) :
        cat \in Categories, cond \in Conditions, area \in RowAreas, time \in Times }

PolicyTables ==
    { << MinimumsHeader >> \o rows : rows \in SeqsUpTo(PolicyRows, MaxPolicyRows) }
    \cup { << MinimumsHeader, row >> : row \in AxisRows }

MinimumsInit ==
    /\ ScansIdle
    /\ args \in [ cert : Tiers, area : FlightAreas, instructed : BOOLEAN, vfr : BOOLEAN,
                   daytime : { "True", "False", "None" }, minimums : PolicyTables ]
    /\ result = << >>
    /\ pc = "call"
    /\ err = "none"

\* lines 396-455
CallGetMinimums ==
    /\ pc = "call"
    /\ result' = get_minimums(args.cert, args.area, args.instructed, args.vfr,
                              args.daytime = "True", args.minimums)
    /\ pc' = "returned"
    /\ UNCHANGED << args, err >>
    /\ UNCHANGED notCall

MinimumsNext == CallGetMinimums

SpecMinimums == MinimumsInit /\ [][MinimumsNext]_vars

-----------------------------------------------------------------------------
(* get_minimums: properties *)

\* the rows of the table of the call, without the header
PolicyData == { args.minimums[i] : i \in 2..Len(args.minimums) }

\* the rows get_minimums keeps
Matching ==
    { row \in PolicyData :
        RowMatches(row, args.cert, args.area, args.instructed, args.vfr,
                   args.daytime = "True") }

Lowest(x, S) == x \in S /\ \A y \in S : x <= y
Highest(x, S) == x \in S /\ \A y \in S : y <= x

\* C13: get_minimums returns None iff no row matches; otherwise ceiling and
\* visibility are the lowest over the matching rows, wind and crosswind the highest
\* over the matching rows, each column on its own.
C13_Aggregate ==
    pc = "returned" =>
        /\ (result = None) <=> (Matching = {})
        /\ Matching # {} =>
              /\ Len(result) = 4
              /\ Lowest(result[1], { row.ceiling : row \in Matching })
              /\ Lowest(result[2], { row.visibility : row \in Matching })
              /\ Highest(result[3], { row.wind : row \in Matching })
              /\ Highest(result[4], { row.crosswind : row \in Matching })

\* two rows match and no row holds the four limits that are returned
C13_Witness ==
    /\ pc = "returned"
    /\ Cardinality(Matching) = 2
    /\ result # None
    /\ \A row \in Matching :
          << row.ceiling, row.visibility, row.wind, row.crosswind >> # result

\* the four axes of a candidate row
Candidate(row) ==
    /\ \/ row.category = "Dual" /\ args.instructed
       \/ row.category = "Student" /\ args.cert >= PILOT_STUDENT
       \/ row.category = "Certified" /\ args.cert >= PILOT_CERTIFIED
       \/ row.category = "50 Hours" /\ args.cert = PILOT_50_HOURS
    /\ \/ row.conditions = "VMC" /\ args.vfr
       \/ row.conditions = "IMC" /\ ~args.vfr
    /\ \/ row.area = "Any"
       \/ row.area = "Local" /\ args.area \in { "Pattern", "Practice Area", "Local" }
       \/ row.area = args.area
    /\ \/ row.time = "Day" /\ args.daytime = "True"
       \/ row.time = "Night" /\ args.daytime = "False"

Candidates == { row \in PolicyData : Candidate(row) }

\* C14: for a call with daytime True or False, the rows get_minimums aggregates are
\* the rows that match on category, conditions, area and time, and no other row:
\* None is returned iff there is no such row, and every limit returned is the limit
\* of such a row.
C14_Candidates ==
    (pc = "returned" /\ args.daytime # "None") =>
        /\ (result = None) <=> (Candidates = {})
        /\ Candidates # {} =>
              /\ result[1] \in { row.ceiling : row \in Candidates }
              /\ result[2] \in { row.visibility : row \in Candidates }
              /\ result[3] \in { row.wind : row \in Candidates }
              /\ result[4] \in { row.crosswind : row \in Candidates }
        /\ \A row \in PolicyData : Candidate(row) <=> row \in Matching

\* a 'Dual' row matched for an instructed flight of a pilot with no valid tier, in
\* the pattern, against a 'Local' row
C14_Witness ==
    /\ pc = "returned"
    /\ args.cert = PILOT_INVALID
    /\ args.instructed
    /\ args.area = "Pattern"
    /\ args.daytime = "True"
    /\ Len(args.minimums) = 2
    /\ args.minimums[2].category = "Dual"
    /\ args.minimums[2].area = "Local"
    /\ result # None

-----------------------------------------------------------------------------
(* get_certification, one call *)

MaxDate == 3

DateStrings == { BlankStr, GarbageStr } \cup { DateStr(t) : t \in 1..MaxDate }

Takeoffs == { None } \cup { Some(t) : t \in 0..MaxDate }

Pilots ==
    { [ id |-> "S1", joined |-> j, solo |-> so, license |-> li, hours50 |-> h50,
        instrument |-> BlankStr, advanced |-> BlankStr, multiengine |-> BlankStr ] :
        j \in DateStrings \ { DateStr(MaxDate) }, so \in DateStrings,
        li \in DateStrings, h50 \in DateStrings }

CertificationInit ==
    /\ ScansIdle
    /\ args \in [ takeoff : Takeoffs, student : Pilots ]
    /\ result = << >>
    /\ pc = "call"
    /\ err = "none"

\* lines 97-119
CallGetCertification ==
    /\ pc = "call"
    /\ ~CertificationRaises(args.takeoff, args.student)
    /\ result' = get_certification(args.takeoff, args.student)
    /\ pc' = "returned"
    /\ UNCHANGED << args, err >>
    /\ UNCHANGED notCall

\* line 91: takeoff.tzinfo of a takeoff that is None
CertificationAttributeError ==
    /\ pc = "call"
    /\ CertificationRaises(args.takeoff, args.student)
    /\ pc' = "raised"
    /\ err' = "AttributeError"
    /\ UNCHANGED << args, result >>
    /\ UNCHANGED notCall

CertificationNext ==
    \/ CallGetCertification
    \/ CertificationAttributeError

SpecCertification == CertificationInit /\ [][CertificationNext]_vars

-----------------------------------------------------------------------------
(* get_certification: properties *)

\* the date is present, parses, and is at or before the takeoff
Met(str, takeoff) == takeoff # None /\ Len(str) = 1 /\ str[1] <= Val(takeoff)

\* the tier the thresholds give a pilot
TierOf(pilot, takeoff) ==
    IF ~Met(pilot.joined, takeoff) THEN PILOT_INVALID
    ELSE IF Met(pilot.hours50, takeoff) THEN PILOT_50_HOURS
    ELSE IF Met(pilot.license, takeoff) THEN PILOT_CERTIFIED
    ELSE IF Met(pilot.solo, takeoff) THEN PILOT_STUDENT
    ELSE PILOT_NOVICE

\* C15: get_certification returns Invalid iff the join date is absent, unparseable
\* or after the takeoff; otherwise the highest of 50 Hours, Certified, Student whose
\* date is present and at or before the takeoff, and Novice when there is none.
C15_Certification ==
    pc = "returned" =>
        /\ result = TierOf(args.student, args.takeoff)
        /\ (result = PILOT_INVALID) <=>
              \/ Len(args.student.joined) # 1
              \/ args.takeoff = None
              \/ Val(args.takeoff) < args.student.joined[1]

\* a takeoff at the very hour of the solo date, with a license date that does not
\* parse and a 50-hours date still ahead
C15_Witness ==
    /\ pc = "returned"
    /\ args.takeoff # None
    /\ args.student.solo = DateStr(Val(args.takeoff))
    /\ args.student.license = GarbageStr
    /\ Len(args.student.hours50) = 1
    /\ args.student.hours50[1] > Val(args.takeoff)
    /\ result = PILOT_STUDENT

\* the thresholds a pilot meets at a takeoff
MetBy(pilot, takeoff) ==
    { f \in { "joined", "solo", "license", "hours50" } : Met(pilot[f], takeoff) }

\* C16: get_certification is monotonic: at one takeoff, a pilot who meets every
\* threshold (join, solo, license, 50 hours) that another pilot meets has a tier at
\* least as high, in the order Invalid < Novice < Student < Certified < 50 Hours.
C16_Monotonic ==
    (pc = "returned" /\ args.takeoff # None) =>
        \A other \in Pilots :
            MetBy(other, args.takeoff) \subseteq MetBy(args.student, args.takeoff)
                => result >= get_certification(args.takeoff, other)

\* a certified pilot, against a pilot who meets fewer thresholds and is a student
C16_Witness ==
    /\ pc = "returned"
    /\ args.takeoff # None
    /\ result = PILOT_CERTIFIED
    /\ \E other \in Pilots :
          /\ MetBy(other, args.takeoff) \subseteq MetBy(args.student, args.takeoff)
          /\ MetBy(other, args.takeoff) # MetBy(args.student, args.takeoff)
          /\ get_certification(args.takeoff, other) = PILOT_STUDENT

-----------------------------------------------------------------------------
(* has_instrument_rating, has_advanced_endorsement, has_multiengine_endorsement,
   one call *)

RatedPilots ==
    { [ id |-> "S1", joined |-> DateStr(1), solo |-> BlankStr, license |-> BlankStr,
        hours50 |-> BlankStr, instrument |-> ins, advanced |-> adv,
        multiengine |-> mul ] :
        ins \in DateStrings, adv \in DateStrings, mul \in DateStrings }

RatingInit ==
    /\ ScansIdle
    /\ args \in [ takeoff : Takeoffs, student : RatedPilots ]
    /\ result = << >>
    /\ pc = "call"
    /\ err = "none"

\* lines 144-168
CallHasInstrumentRating ==
    /\ pc = "call"
    /\ has_instrument_rating(args.takeoff, args.student) # "AttributeError"
    /\ result' = [ fn |-> "has_instrument_rating",
                   value |-> has_instrument_rating(args.takeoff, args.student) = "True" ]
    /\ pc' = "returned"
    /\ UNCHANGED << args, err >>
    /\ UNCHANGED notCall

\* lines 190-214
CallHasAdvancedEndorsement ==
    /\ pc = "call"
    /\ has_advanced_endorsement(args.takeoff, args.student) # "AttributeError"
    /\ result' = [ fn |-> "has_advanced_endorsement",
                   value |-> has_advanced_endorsement(args.takeoff, args.student) = "True" ]
    /\ pc' = "returned"
    /\ UNCHANGED << args, err >>
    /\ UNCHANGED notCall

\* lines 236-260
CallHasMultiengineEndorsement ==
    /\ pc = "call"
    /\ has_multiengine_endorsement(args.takeoff, args.student) # "AttributeError"
    /\ result' = [ fn |-> "has_multiengine_endorsement",
                   value |-> has_multiengine_endorsement(args.takeoff, args.student) = "True" ]
    /\ pc' = "returned"
    /\ UNCHANGED << args, err >>
    /\ UNCHANGED notCall

\* lines 155, 201, 247: takeoff.tzinfo of a takeoff that is None
RatingAttributeError ==
    /\ pc = "call"
    /\ \/ has_instrument_rating(args.takeoff, args.student) = "AttributeError"
       \/ has_advanced_endorsement(args.takeoff, args.student) = "AttributeError"
       \/ has_multiengine_endorsement(args.takeoff, args.student) = "AttributeError"
    /\ pc' = "raised"
    /\ err' = "AttributeError"
    /\ UNCHANGED << args, result >>
    /\ UNCHANGED notCall

RatingNext ==
    \/ CallHasInstrumentRating
    \/ CallHasAdvancedEndorsement
    \/ CallHasMultiengineEndorsement
    \/ RatingAttributeError

SpecRating == RatingInit /\ [][RatingNext]_vars

-----------------------------------------------------------------------------
(* has_instrument_rating, has_advanced_endorsement, has_multiengine_endorsement:
   properties *)

\* the date field each function reads
FieldOf(fn) ==
    CASE fn = "has_instrument_rating"       -> "instrument"
      [] fn = "has_advanced_endorsement"    -> "advanced"
      [] fn = "has_multiengine_endorsement" -> "multiengine"

\* C17: each of has_instrument_rating, has_advanced_endorsement and
\* has_multiengine_endorsement returns True iff its date field is not empty, parses,
\* and is at or before the takeoff; otherwise it returns False.
C17_Ratings ==
    pc = "returned" =>
        (result.value <=> Met(args.student[FieldOf(result.fn)], args.takeoff))

\* an advanced endorsement dated at the very hour of the takeoff counts as held
C17_Witness ==
    /\ pc = "returned"
    /\ result.fn = "has_advanced_endorsement"
    /\ args.takeoff # None
    /\ args.student.advanced = DateStr(Val(args.takeoff))
    /\ result.value

-----------------------------------------------------------------------------
(* get_weather_report, one call *)

MaxReports == 2

ReportKeys ==
    { Key(t, form) : t \in 0..MaxDate, form \in { "iso", "alt" } }
    \cup { Key(0, "garbage") }

BriefReports ==
    { Report(Miles(10), Word("calm"), Word("clear")),
      Report(Word("unavailable"), Word("unavailable"), Word("unavailable")) }

\* the keys of a dict are distinct
DistinctKeys(entries) ==
    \A i, j \in DOMAIN entries : entries[i].key = entries[j].key => i = j

ReportTables ==
    { entries \in SeqsUpTo({ Entry(k, r) : k \in ReportKeys, r \in BriefReports },
                           MaxReports) : DistinctKeys(entries) }

ReportInit ==
    /\ ScansIdle
    /\ args \in [ takeoff : Takeoffs, weather : ReportTables ]
    /\ result = << >>
    /\ pc = "call"
    /\ err = "none"

\* lines 320-346
CallGetWeatherReport ==
    /\ pc = "call"
    /\ args.takeoff # None
    /\ result' = get_weather_report(Val(args.takeoff), args.weather)
    /\ pc' = "returned"
    /\ UNCHANGED << args, err >>
    /\ UNCHANGED notCall

\* line 321: takeoff.isoformat() of a takeoff that is None
ReportAttributeError ==
    /\ pc = "call"
    /\ args.takeoff = None
    /\ pc' = "raised"
    /\ err' = "AttributeError"
    /\ UNCHANGED << args, result >>
    /\ UNCHANGED notCall

ReportNext ==
    \/ CallGetWeatherReport
    \/ ReportAttributeError

SpecReport == ReportInit /\ [][ReportNext]_vars

-----------------------------------------------------------------------------
(* get_weather_report: properties *)

\* the entries timestamped at or before the takeoff of the call
AtOrBefore ==
    { i \in DOMAIN args.weather :
        /\ args.weather[i].key.form # "garbage"
        /\ args.weather[i].key.time <= Val(args.takeoff) }

\* C18: get_weather_report returns the most recent report at or before the takeoff:
\* the report timestamped at the takeoff when there is one, otherwise the report with
\* the latest timestamp before it; None iff no report is timestamped at or before
\* the takeoff; never a report timestamped after the takeoff.
C18_MostRecentReport ==
    pc = "returned" =>
        /\ (result = None) <=> (AtOrBefore = {})
        /\ result # None =>
              \E i \in AtOrBefore :
                  /\ result = Some(args.weather[i].report)
                  /\ \A j \in AtOrBefore :
                        args.weather[j].key.time <= args.weather[i].key.time

-----------------------------------------------------------------------------
(* bad_visibility, one call *)

MaxMiles == 3

MilesValues == 0..MaxMiles

\* whole miles in feet, and one foot short of them
FeetValues == UNION { { m * 5280, m * 5280 - 1 } : m \in 1..MaxMiles }

VisibilityReadings ==
    { Word("unavailable"), Word("missing") }
    \cup { [ kind |-> "dict", prevailing |-> p, minimum |-> m, units |-> "SM" ] :
             p \in MilesValues, m \in { None } \cup { Some(v) : v \in MilesValues } }
    \cup { [ kind |-> "dict", prevailing |-> p, minimum |-> m, units |-> "FT" ] :
             p \in FeetValues, m \in { None } \cup { Some(v) : v \in FeetValues } }

VisibilityInit ==
    /\ ScansIdle
    /\ args \in [ visibility : VisibilityReadings, minimum : MilesValues ]
    /\ result = << >>
    /\ pc = "call"
    /\ err = "none"

\* lines 74-94
CallBadVisibility ==
    /\ pc = "call"
    /\ result' = bad_visibility(args.visibility, args.minimum)
    /\ pc' = "returned"
    /\ UNCHANGED << args, err >>
    /\ UNCHANGED notCall

VisibilityNext == CallBadVisibility

SpecVisibility == VisibilityInit /\ [][VisibilityNext]_vars

-----------------------------------------------------------------------------
(* bad_visibility: properties *)

\* the value a structured reading measures, in feet
MeasuredFeet(reading) ==
    LET value == IF reading.minimum # None THEN Val(reading.minimum)
                 ELSE reading.prevailing
    IN  IF reading.units = "FT" THEN value ELSE value * 5280

\* C19: bad_visibility is a violation iff the reading is 'unavailable' or not a
\* structured reading, or the measured value (the 'minimum' sub-value when present,
\* else 'prevailing', feet converted to statute miles) is strictly below the required
\* minimum; a value equal to the required minimum is not a violation.
C19_Visibility ==
    pc = "returned" =>
        /\ result <=> \/ args.visibility.kind # "dict"
                      \/ MeasuredFeet(args.visibility) < args.minimum * 5280
        /\ (/\ args.visibility.kind = "dict"
            /\ MeasuredFeet(args.visibility) = args.minimum * 5280) => ~result

\* a reading in feet whose 'minimum' sub-value equals the required minimum, below a
\* prevailing value one foot short of it
C19_Witness ==
    /\ pc = "returned"
    /\ args.visibility.kind = "dict"
    /\ args.visibility.units = "FT"
    /\ args.visibility.minimum = Some(args.minimum * 5280)
    /\ args.visibility.prevailing = args.minimum * 5280 - 1
    /\ ~result

-----------------------------------------------------------------------------
(* A scan run twice over the same files *)

\* the tables a scan reads from the directory
Files == << lessons, planes, repairs, students, instructors, minimums, weather, daycycle >>

\* which scan the tables were drawn for
InspectionFiles == students = << >>
EndorsementFiles == students # << >> /\ minimums = << >>
WeatherFiles == minimums # << >>

Ended == pc \in { "done", "raised" }

\* what a run leaves behind: the files as they are now, and what the caller got
Outcome == [ files |-> Files, violations |-> violations, pc |-> pc, err |-> err ]

\* a list that carries the rows of the run before
KeptViolations == violations

\* violations = [] at the start of every run
FreshViolations == << >>

\* list_inspection_violations called again: its locals start afresh, the files stay
RerunInspection ==
    /\ run = 1
    /\ Ended
    /\ InspectionFiles
    /\ previous' = Outcome
    /\ run' = 2
    /\ plane_state' = << >>
    /\ events' = << >>
    /\ idx' = 0
    /\ current_annual' = << >>
    /\ current_hours' = << >>
    /\ last_landing' = << >>
    /\ grounded' = FALSE
    /\ annual' = FALSE
    /\ inspection' = FALSE
    /\ duration' = 0
    /\ annotation' = NoLabel
    /\ violations' = FreshViolations
    /\ pc' = "load"
    /\ err' = "none"
    /\ UNCHANGED << lessons, planes, repairs, endorseOnly, weatherOnly, callOnly,
                    discoverOnly >>

\* list_endorsement_violations called again
RerunEndorsement ==
    /\ run = 1
    /\ Ended
    /\ EndorsementFiles
    /\ previous' = Outcome
    /\ run' = 2
    /\ idx' = 1
    /\ solo' = FALSE
    /\ endorsement' = FALSE
    /\ ifr' = FALSE
    /\ annotation' = NoLabel
    /\ violations' = FreshViolations
    /\ pc' = "scan"
    /\ err' = "none"
    /\ UNCHANGED << lessons, planes, students, instructors, inspOnly, weatherOnly,
                    callOnly, discoverOnly >>

\* list_weather_violations called again
RerunWeather ==
    /\ run = 1
    /\ Ended
    /\ WeatherFiles
    /\ previous' = Outcome
    /\ run' = 2
    /\ idx' = 2
    /\ mins' = None
    /\ weather_report' = None
    /\ violation' = NoLabel
    /\ violations' = FreshViolations
    /\ pc' = "scan"
    /\ err' = "none"
    /\ UNCHANGED << lessons, students, minimums, weather, daycycle, planes, annotation,
                    instructors, solo, endorsement, ifr, inspOnly, callOnly,
                    discoverOnly >>

TwiceInit ==
    \/ Init
    \/ EndorseInit
    \/ WeatherInit

TwiceNext ==
    \/ InspectionFiles /\ Next
    \/ EndorsementFiles /\ EndorseNext
    \/ WeatherFiles /\ WeatherNext
    \/ RerunInspection
    \/ RerunEndorsement
    \/ RerunWeather

SpecTwice == TwiceInit /\ [][TwiceNext]_vars

-----------------------------------------------------------------------------
(* A scan run twice: properties *)

-----------------------------------------------------------------------------
(* app.py: discover_violations *)

\* all_violations += the list a scan returned (lines 57, 59 and 62), with the new
\* rows put in front
GatheredInFront(all, more) == more \o all

Gathered(all, more) == all \o more

\* the number discover_violations prints (lines 70-75; 0 is 'No violations found.')
Reported(all) == Some(Len(all))

-----------------------------------------------------------------------------
(* The directories of discover_violations *)

MaxDiscoverLessons == 2

\* the takeoff of the lessons: one hour after sunrise
Morning == Sunrise + 1

\* a row of lessons.csv; its second column is read as plane by endorsements.py and as
\* tail by inspections.py
FullLesson(student, plane, instructor, takeoff, landing, filed, area, columns) ==
    [ student |-> student, plane |-> plane, tail |-> plane, instructor |-> instructor,
      takeoff |-> takeoff, landing |-> landing, filed |-> filed, area |-> area,
      columns |-> columns ]

FullLessonHeader ==
    FullLesson("STUDENT", "AIRPLANE", "INSTRUCTOR", None, None, "FILED", "AREA", 7)

\* four plain lessons; a lesson in a plane fleet.csv does not name; a short row whose
\* takeoff does not parse; a lesson whose landing does not parse; a full row whose
\* takeoff does not parse
FullLessonRows ==
    { FullLesson("S1", "P1", i, Some(Morning), Some(Morning + 1), f, "Pattern", 7) :
        i \in { "", "I1" }, f \in { "VFR", "IFR" } }
    \cup { FullLesson("S1", "P9", "", Some(Morning), Some(Morning + 1), "VFR", "Pattern", 7),
           FullLesson("S1", "P1", "", None, Some(Morning + 1), "VFR", "", 6),
           FullLesson("S1", "P1", "I1", Some(Morning), None, "VFR", "Pattern", 7),
           FullLesson("S1", "P1", "", None, Some(Morning + 1), "VFR", "Pattern", 7) }

\* a row of fleet.csv; its first column is read as id by endorsements.py and as tail
\* by inspections.py
FullPlane(hours, multiengine) ==
    [ id |-> "P1", tail |-> "P1", annual |-> None, hours |-> hours,
      capability |-> "IFR", advanced |-> "No", multiengine |-> multiengine ]

FullFleets == { << FullPlane(0, "No") >>, << FullPlane(HourLimit, "Yes") >> }

FullRepairs ==
    { << >>,
      << [ tail |-> "P1", in_date |-> Some(Morning + 2), out_date |-> Some(Morning + 3),
           desc |-> "Oil Change" ] >>,
      << [ tail |-> "P1", in_date |-> Some(Morning - 2), out_date |-> Some(Morning - 1),
           desc |-> "Annual Inspection" ] >> }

FullStudents ==
    { << WeatherStudent(DateStr(0), BlankStr, BlankStr, BlankStr) >>,
      << WeatherStudent(DateStr(0), DateStr(1), BlankStr, BlankStr) >> }

FullInstructors == { << [ id |-> "I1", cfii |-> "Yes", mei |-> "No" ] >> }

FullMinimums == { << MinimumsHeader >>, << MinimumsHeader, StudentDay, DualDay >> }

FullWeather ==
    { << >>,
      << Entry(Key(Sunrise, "iso"), Report(Miles(10), Word("calm"), Word("clear"))) >> }

Directories ==
    { [ lessons |-> << FullLessonHeader >> \o ls, fleet |-> fl, repairs |-> rp,
        students |-> st, instructors |-> ins, minimums |-> mi, weather |-> we,
        daycycle |-> [ timezone |-> TRUE, sun |-> Some(<< Sunrise, Sunset >>) ] ] :
        ls \in SeqsUpTo(FullLessonRows, MaxDiscoverLessons), fl \in FullFleets,
        rp \in FullRepairs, st \in FullStudents, ins \in FullInstructors,
        mi \in FullMinimums, we \in FullWeather }

-----------------------------------------------------------------------------
(* discover_violations as a state machine *)

\* lines 56-57 and the loads of list_weather_violations (violations.py 487-495)
DiscoverInit ==
    /\ directory \in Directories
    /\ stage = "weather"
    /\ all_violations = << >>
    /\ lessons = directory.lessons
    /\ students = directory.students
    /\ minimums = directory.minimums
    /\ weather = directory.weather
    /\ daycycle = directory.daycycle
    /\ idx = 2
    /\ mins = None
    /\ weather_report = None
    /\ violation = NoLabel
    /\ violations = << >>
    /\ pc = "scan"
    /\ err = "none"
    /\ planes = << >>
    /\ annotation = NoLabel
    /\ instructors = << >>
    /\ solo = FALSE
    /\ endorsement = FALSE
    /\ ifr = FALSE
    /\ repairs = << >>
    /\ plane_state = << >>
    /\ events = << >>
    /\ current_annual = << >>
    /\ current_hours = << >>
    /\ last_landing = << >>
    /\ grounded = FALSE
    /\ annual = FALSE
    /\ inspection = FALSE
    /\ duration = 0
    /\ args = << >>
    /\ result = << >>
    /\ run = 1
    /\ previous = << >>

\* lines 57-59: the weather rows are gathered and list_inspection_violations is
\* called; it loads lessons.csv, fleet.csv and repairs.csv without their headers
\* (inspections.py 110-115)
StartInspection ==
    /\ stage = "weather"
    /\ pc = "done"
    /\ all_violations' = Gathered(all_violations, violations)
    /\ stage' = "inspection"
    /\ lessons' = Tail(directory.lessons)
    /\ planes' = directory.fleet
    /\ repairs' = directory.repairs
    /\ idx' = 0
    /\ violations' = << >>
    /\ pc' = "load"
    /\ students' = << >>
    /\ minimums' = << >>
    /\ weather' = << >>
    /\ daycycle' = << >>
    /\ mins' = << >>
    /\ weather_report' = << >>
    /\ violation' = NoLabel
    /\ UNCHANGED << plane_state, events, current_annual, current_hours, last_landing,
                    grounded, annual, inspection, duration, annotation, err,
                    instructors, solo, endorsement, ifr, callOnly, rerunOnly, directory >>

\* lines 59-62: the inspection rows are gathered and list_endorsement_violations is
\* called; it loads lessons.csv, students.csv, instructors.csv and fleet.csv
\* (endorsements.py 231-242)
StartEndorsement ==
    /\ stage = "inspection"
    /\ pc = "done"
    /\ all_violations' = Gathered(all_violations, violations)
    /\ stage' = "endorsement"
    /\ lessons' = directory.lessons
    /\ students' = directory.students
    /\ instructors' = directory.instructors
    /\ planes' = directory.fleet
    /\ idx' = 1
    /\ violations' = << >>
    /\ annotation' = NoLabel
    /\ pc' = "scan"
    /\ repairs' = << >>
    /\ plane_state' = << >>
    /\ events' = << >>
    /\ current_annual' = << >>
    /\ current_hours' = << >>
    /\ last_landing' = << >>
    /\ grounded' = FALSE
    /\ annual' = FALSE
    /\ inspection' = FALSE
    /\ duration' = 0
    /\ UNCHANGED << err, solo, endorsement, ifr, weatherOnly, callOnly, rerunOnly,
                    directory >>

\* lines 62-75: the endorsement rows are gathered and the number of rows is printed
CountViolations ==
    /\ stage = "endorsement"
    /\ pc = "done"
    /\ all_violations' = Gathered(all_violations, violations)
    /\ stage' = "count"
    /\ result' = Reported(all_violations')
    /\ UNCHANGED << lessons, planes, students, instructors, idx, annotation, violations,
                    pc, err, solo, endorsement, ifr, inspOnly, weatherOnly, args,
                    rerunOnly, directory >>

DiscoverNext ==
    \/ stage = "weather" /\ WeatherNext
    \/ stage = "inspection" /\ Next
    \/ stage = "endorsement" /\ EndorseNext
    \/ StartInspection
    \/ StartEndorsement
    \/ CountViolations

SpecDiscover == DiscoverInit /\ [][DiscoverNext]_vars

-----------------------------------------------------------------------------
(* discover_violations: properties *)

\* the labels of the three scans, in the order discover_violations calls them
ScanLabels ==
    << { "Visibility", "Winds", "Ceiling", "Weather", "Unknown" },
       { "Annual", "Inspection", "Grounded", "Maintenance" },
       { "Credentials", "Solo", "Endorsement", "IFR" } >>

ScanOf(label) == CHOOSE s \in DOMAIN ScanLabels : label \in ScanLabels[s]

StageScan ==
    CASE stage = "weather" -> 1 [] stage = "inspection" -> 2
      [] stage = "endorsement" -> 3 [] OTHER -> 4

\* the rows of lessons.csv after its header, by position
DataRows == 2..Len(directory.lessons)

\* how often the file holds the row
Copies(row) == Cardinality({ i \in DataRows : directory.lessons[i] = row })

\* how many records of the list carry the row with a label of the scan
Records(list, row, s) ==
    Cardinality({ i \in DOMAIN list :
                    list[i].lesson = row /\ list[i].reason \in ScanLabels[s] })

\* every record of the list is a row of the file with one label of some scan, and
\* no row has more records of one scan than the file has copies of it
RowsWithOneLabel(list) ==
    /\ \A i \in DOMAIN list :
          /\ DOMAIN list[i] = { "lesson", "reason" }
          /\ \E k \in DataRows : directory.lessons[k] = list[i].lesson
          /\ \E s \in DOMAIN ScanLabels : list[i].reason \in ScanLabels[s]
    /\ \A k \in DataRows : \A s \in DOMAIN ScanLabels :
          Records(list, directory.lessons[k], s) <= Copies(directory.lessons[k])

\* the gathered list holds the weather rows, then the inspection rows, then the
\* endorsement rows, of the scans that have returned
GatheredInOrder ==
    /\ \A i, j \in DOMAIN all_violations :
          i < j => ScanOf(all_violations[i].reason) <= ScanOf(all_violations[j].reason)
    /\ \A i \in DOMAIN all_violations : ScanOf(all_violations[i].reason) < StageScan
    /\ \A k \in DataRows :
          Cardinality({ i \in DOMAIN all_violations :
                          all_violations[i].lesson = directory.lessons[k] })
            <= 3 * Copies(directory.lessons[k])

\* C21: every violation record is a lesson row of the input followed by exactly one
\* label; a lesson row yields at most one record per scan, so at most three records
\* in the list discover_violations gathers, which holds the weather rows, then the
\* inspection rows, then the endorsement rows; the list grows by the length of each
\* scan's list, and the number reported is its length.
C21_Records ==
    [][ /\ RowsWithOneLabel(violations')
        /\ (stage' # "count") =>
              \A i \in DOMAIN violations' : ScanOf(violations'[i].reason) = StageScan'
        /\ RowsWithOneLabel(all_violations')
        /\ GatheredInOrder'
        /\ (stage' # stage) =>
              /\ Len(all_violations') = Len(all_violations) + Len(violations)
              /\ SubSeq(all_violations', Len(all_violations) + 1, Len(all_violations'))
                   = violations
        /\ (stage' = "count") => (result' = Some(Len(all_violations'))) ]_vars

\* one lesson row has been reported three times, once by each scan
C21_Witness ==
    /\ stage = "count"
    /\ Len(directory.lessons) = 3
    /\ directory.lessons[2] # directory.lessons[3]
    /\ \A s \in DOMAIN ScanLabels : Records(all_violations, directory.lessons[2], s) = 1
    /\ result = Some(Len(all_violations))
    /\ Len(all_violations) > 3

-----------------------------------------------------------------------------
(* The endorsement scan: the endorsement rule *)

\* the student holds the endorsement at takeoff: its date parses and is at or before
\* the takeoff
HeldAt(str, takeoff) == Len(str) = 1 /\ takeoff # None /\ str[1] <= Val(takeoff)

\* the rule of C22 for a lesson of the student in the plane
EndorsementLacking(lesson, student, instructor, plane) ==
    IF instructor.kind = "row"
    THEN is_multiengine(plane) /\ ~teaches_multiengine(instructor.row)
    ELSE \/ is_multiengine(plane) /\ ~HeldAt(student.multiengine, lesson.takeoff)
         \/ is_advanced(plane) /\ ~HeldAt(student.advanced, lesson.takeoff)

-----------------------------------------------------------------------------
(* The inspection scan: the order of check and update *)

\* landing - takeoff in hours, 0 when either did not parse (line 176)
FlownHours(e) == IF BothParsed(e) THEN Val(e.landing) - Val(e.time) ELSE 0

\* C23: a replayed lesson is checked against the plane's hours and last annual date
\* as they were before the lesson; only then the hours are increased by the lesson's
\* duration, for every replayed lesson, flagged or not (also when flagged Grounded);
\* the last annual date is left as it was.
C23_CheckThenUpdate ==
    [][ LessonReplayed =>
          LET tail == Event.tail
              before == current_hours[tail]
              since == current_annual[tail]
          IN  /\ inspection' =
                    (before >= HourLimit \/ before + FlownHours(Event) > HourLimit)
              /\ annual' =
                    (/\ since # None
                     /\ (Val(Event.time) - Val(since)) \div HoursPerDay > YearDays)
              /\ BothParsed(Event) =>
                    (grounded' =
                       \E k \in ParsedPeriods(Event) :
                          InShop(Val(Event.time), Val(Event.landing),
                                 EntryOf(Event, k), ExitOf(Event, k)))
              /\ current_hours' = [ current_hours EXCEPT ![tail] = before + FlownHours(Event) ]
              /\ current_annual' = current_annual
              /\ plane_state' = plane_state ]_vars

\* the first event was a lesson that crossed 100 hours while the plane was in the
\* shop: it is flagged on the hours before it, and its hours are counted
C23_Witness ==
    /\ LastIsLesson
    /\ idx = 2
    /\ grounded
    /\ inspection
    /\ annotation = "Maintenance"
    /\ duration > 1
    /\ plane_state[Last.tail].hours_since_100 < HourLimit
    /\ current_hours[Last.tail] = plane_state[Last.tail].hours_since_100 + duration
    /\ current_hours[Last.tail] > HourLimit

-----------------------------------------------------------------------------
(* The inspection scan: events with the same timestamp *)

MaxTieLessons == 2
MaxTieRepairs == 1

\* every repair enters the shop at TieTime; a lesson takes off then or two hours before
TieTime == T0 + 2

TieLessonRows ==
    { [ tail |-> a, takeoff |-> Some(t), landing |-> Some(t + d) ] :
        a \in Fleet, t \in { T0, TieTime }, d \in { 1, 2 } }
    \cup { [ tail |-> UnknownTail, takeoff |-> Some(T0), landing |-> Some(T0 + 1) ] }
    \cup { [ tail |-> a, takeoff |-> None, landing |-> Some(T0 + 1) ] : a \in Fleet }
    \cup { [ tail |-> a, takeoff |-> Some(T0), landing |-> None ] : a \in Fleet }

TieRepairRows ==
    { [ tail |-> a, in_date |-> Some(TieTime), out_date |-> out, desc |-> d ] :
        a \in Fleet, out \in { None, Some(TieTime), Some(TieTime + 1) },
        d \in Descriptions }

\* the datasets of Init with the tables above
TiesInit ==
    /\ lessons \in SeqsUpTo(TieLessonRows, MaxTieLessons)
    /\ planes \in FleetTables
    /\ repairs \in SeqsUpTo(TieRepairRows, MaxTieRepairs)
    /\ plane_state = << >>
    /\ events = << >>
    /\ idx = 0
    /\ current_annual = << >>
    /\ current_hours = << >>
    /\ last_landing = << >>
    /\ grounded = FALSE
    /\ annual = FALSE
    /\ inspection = FALSE
    /\ duration = 0
    /\ annotation = NoLabel
    /\ violations = << >>
    /\ pc = "load"
    /\ err = "none"
    /\ students = << >>
    /\ instructors = << >>
    /\ solo = FALSE
    /\ endorsement = FALSE
    /\ ifr = FALSE
    /\ minimums = << >>
    /\ weather = << >>
    /\ daycycle = << >>
    /\ mins = << >>
    /\ weather_report = << >>
    /\ violation = NoLabel
    /\ args = << >>
    /\ result = << >>
    /\ run = 1
    /\ previous = << >>
    /\ directory = << >>
    /\ stage = "idle"
    /\ all_violations = << >>

\* lines 142-159 with a tied repair sorted in front of the lesson: the replay the
\* scan would make if the repairs had been appended to the timeline first
BuildTimelineRepairsFirst ==
    /\ pc = "timeline"
    /\ ~SortRaises(Timeline(lessons, plane_state, planes))
    /\ events' = SortEvents(TimelineRepairsFirst(lessons, plane_state, planes), 1, << >>)
    /\ current_annual' = [ t \in DOMAIN plane_state |-> plane_state[t].last_annual ]
    /\ current_hours' = [ t \in DOMAIN plane_state |-> plane_state[t].hours_since_100 ]
    /\ last_landing' = [ t \in DOMAIN plane_state |-> None ]
    /\ idx' = 1
    /\ pc' = "replay"
    /\ UNCHANGED << lessons, planes, repairs, plane_state, grounded, annual, inspection,
                    duration, annotation, violations, err >>
    /\ UNCHANGED notInspection

\* the scan as it is, and then the same tables replayed with the repairs first
TiesNext ==
    \/ run = 1 /\ Next
    \/ RerunInspection
    \/ run = 2 /\ BuildState
    \/ run = 2 /\ BuildTimelineRepairsFirst
    \/ run = 2 /\ SortTypeError
    \/ run = 2 /\ LessonEvent
    \/ run = 2 /\ LessonKeyError
    \/ run = 2 /\ LessonTypeError
    \/ run = 2 /\ AnnualEvent
    \/ run = 2 /\ RepairEvent
    \/ run = 2 /\ Return

SpecTies == TiesInit /\ [][TiesNext]_vars

\* the lesson event i and the repair or annual event j are of one plane and one time
Tied(i, j) ==
    /\ events[i].etype = "lesson"
    /\ events[j].etype # "lesson"
    /\ events[i].tail = events[j].tail
    /\ events[i].time = events[j].time

Rows(list) == { list[i] : i \in DOMAIN list }

\* C24 as claimed: when a lesson takes off at the timestamp of a repair or annual
\* inspection of its plane, the scan returns the same set of rows and labels whether
\* the lesson or the repair is replayed first.
C24_TiesDoNotMatter ==
    [][ (run' = 2 /\ pc' = "done" /\ previous'.pc = "done") =>
          Rows(violations') = Rows(previous'.violations) ]_vars

\* C24 as amended: the scan replays a lesson before a repair or annual inspection of
\* its plane with the same timestamp, so the lesson is judged on the hours and the
\* last annual date from before the reset.
C24_LessonBeforeTiedRepair ==
    [][ (run = 1 /\ LessonReplayed) =>
          \A j \in DOMAIN events :
             Tied(idx, j) =>
                /\ j > idx
                /\ inspection' =
                      (\/ current_hours[Event.tail] >= HourLimit
                       \/ current_hours[Event.tail] + FlownHours(Event) > HourLimit)
                /\ annual' =
                      (/\ current_annual[Event.tail] # None
                       /\ (Val(Event.time) - Val(current_annual[Event.tail]))
                             \div HoursPerDay > YearDays) ]_vars

\* a lesson that takes off as its plane enters the shop has been flagged on the 100
\* hours the repair is about to reset
C24_Witness ==
    /\ run = 1
    /\ LastIsLesson
    /\ idx <= Len(events)
    /\ Tied(idx - 1, idx)
    /\ inspection
    /\ plane_state[Last.tail].hours_since_100 = HourLimit
    /\ current_hours[Last.tail] = HourLimit + duration

-----------------------------------------------------------------------------
(* The inspection scan over two planes, and over the same tables changed *)

MaxFleetLessons == 2
MaxFleetRepairs == 2

TwoPlanes == { "A", "B" }

TwoPlaneLessonRows ==
    { [ tail |-> a, takeoff |-> Some(t), landing |-> Some(t + 1) ] :
        a \in TwoPlanes, t \in { T0, T0 + 2 } }
    \cup { [ tail |-> "A", takeoff |-> None, landing |-> Some(T0 + 1) ],
           [ tail |-> "A", takeoff |-> Some(T0), landing |-> None ],
           [ tail |-> UnknownTail, takeoff |-> Some(T0), landing |-> Some(T0 + 1) ] }

TwoPlaneRepairRows ==
    { [ tail |-> "A", in_date |-> Some(T0 - 1), out_date |-> Some(T0 + 1),
        desc |-> "Oil Change" ],
      [ tail |-> "A", in_date |-> Some(T0 + 3), out_date |-> Some(T0 + 4),
        desc |-> "Oil Change" ],
      [ tail |-> "A", in_date |-> Some(T0 + 1), out_date |-> Some(T0 + 1),
        desc |-> "Annual Inspection" ],
      [ tail |-> "B", in_date |-> Some(T0 + 1), out_date |-> Some(T0 + 3),
        desc |-> "Oil Change" ] }

TwoPlaneFleets ==
    { << [ tail |-> "A", annual |-> d, hours |-> h ],
         [ tail |-> "B", annual |-> None, hours |-> k ] >> :
        d \in AnnualDates, h \in InitialHours, k \in InitialHours }

FleetInit ==
    /\ lessons \in SeqsUpTo(TwoPlaneLessonRows, MaxFleetLessons)
    /\ planes \in TwoPlaneFleets
    /\ repairs \in SeqsUpTo(TwoPlaneRepairRows, MaxFleetRepairs)
    /\ plane_state = << >>
    /\ events = << >>
    /\ idx = 0
    /\ current_annual = << >>
    /\ current_hours = << >>
    /\ last_landing = << >>
    /\ grounded = FALSE
    /\ annual = FALSE
    /\ inspection = FALSE
    /\ duration = 0
    /\ annotation = NoLabel
    /\ violations = << >>
    /\ pc = "load"
    /\ err = "none"
    /\ students = << >>
    /\ instructors = << >>
    /\ solo = FALSE
    /\ endorsement = FALSE
    /\ ifr = FALSE
    /\ minimums = << >>
    /\ weather = << >>
    /\ daycycle = << >>
    /\ mins = << >>
    /\ weather_report = << >>
    /\ violation = NoLabel
    /\ args = << >>
    /\ result = << >>
    /\ run = 1
    /\ previous = << >>
    /\ directory = << >>
    /\ stage = "idle"
    /\ all_violations = << >>

\* the locals of list_inspection_violations at the start of a call
FreshScan ==
    /\ plane_state' = << >>
    /\ events' = << >>
    /\ idx' = 0
    /\ current_annual' = << >>
    /\ current_hours' = << >>
    /\ last_landing' = << >>
    /\ grounded' = FALSE
    /\ annual' = FALSE
    /\ inspection' = FALSE
    /\ duration' = 0
    /\ annotation' = NoLabel
    /\ violations' = FreshViolations
    /\ pc' = "load"
    /\ err' = "none"

RowsOfOthers(table, tail) == SelectSeq(table, LAMBDA row : row.tail # tail)

\* the scan called again on the tables without the lessons and repairs of one plane
RerunWithoutPlane ==
    /\ run = 1
    /\ Ended
    /\ \E a \in TwoPlanes :
          /\ previous' = [ change |-> "without", tail |-> a, violations |-> violations,
                           pc |-> pc, err |-> err ]
          /\ lessons' = RowsOfOthers(lessons, a)
          /\ repairs' = RowsOfOthers(repairs, a)
    /\ run' = 2
    /\ FreshScan
    /\ UNCHANGED << planes, endorseOnly, weatherOnly, callOnly, discoverOnly >>

Reorderings(s) ==
    { [ i \in DOMAIN s |-> s[p[i]] ] :
        p \in { q \in [ DOMAIN s -> DOMAIN s ] : \A i, j \in DOMAIN s : q[i] = q[j] => i = j } }

\* the scan called again on the tables with their rows in another order
RerunPermuted ==
    /\ run = 1
    /\ Ended
    /\ \E ls \in Reorderings(lessons), rs \in Reorderings(repairs) :
          /\ ls # lessons \/ rs # repairs
          /\ lessons' = ls
          /\ repairs' = rs
    /\ previous' = [ change |-> "permuted", tail |-> "", violations |-> violations,
                     pc |-> pc, err |-> err ]
    /\ run' = 2
    /\ FreshScan
    /\ UNCHANGED << planes, endorseOnly, weatherOnly, callOnly, discoverOnly >>

FleetNext ==
    \/ Next
    \/ RerunWithoutPlane
    \/ RerunPermuted

SpecFleet == FleetInit /\ [][FleetNext]_vars

-----------------------------------------------------------------------------
(* The inspection scan over two planes: properties *)

\* the rows a call hands its caller: the list when it returned, none when it raised
Emitted(list, at) == IF at = "done" THEN list ELSE << >>

RowsFor(tail, list) == SelectSeq(list, LAMBDA row : row.lesson.tail = tail)

\* C25: replaying an event of one plane leaves the hours, the last annual date and
\* the shop periods of every other plane as they were, and the rows emitted for a
\* plane's lessons are the same whatever the lessons and repairs of the other plane
\* are (here: the same as with none).
C25_PlanesAreLocal ==
    [][ /\ (AtEvent /\ idx' = idx + 1) =>
              \A b \in DOMAIN plane_state \ { Event.tail } :
                 /\ current_hours'[b] = current_hours[b]
                 /\ current_annual'[b] = current_annual[b]
                 /\ plane_state'[b] = plane_state[b]
        /\ (run' = 2 /\ pc # pc' /\ pc' \in { "done", "raised" }
              /\ previous'.change = "without") =>
              \A b \in TwoPlanes \ { previous'.tail } :
                 RowsFor(b, Emitted(violations', pc'))
                   = RowsFor(b, Emitted(previous'.violations, previous'.pc)) ]_vars

\* the same when neither call raises
PlanesAreLocalUnlessRaised ==
    [][ /\ (AtEvent /\ idx' = idx + 1) =>
              \A b \in DOMAIN plane_state \ { Event.tail } :
                 /\ current_hours'[b] = current_hours[b]
                 /\ current_annual'[b] = current_annual[b]
                 /\ plane_state'[b] = plane_state[b]
        /\ (run' = 2 /\ pc # pc' /\ pc' = "done" /\ previous'.pc = "done"
              /\ previous'.change = "without") =>
              \A b \in TwoPlanes \ { previous'.tail } :
                 RowsFor(b, violations') = RowsFor(b, previous'.violations) ]_vars

-----------------------------------------------------------------------------
(* The inspection scan: a plane with no last annual date *)

\* an annual inspection with a parseable date was replayed for the event's plane
\* before the event
AnnualReplayedBefore(i) ==
    \E j \in 1..(i - 1) :
        /\ events[j].tail = events[i].tail
        /\ events[j].etype = "annual"
        /\ events[j].time # None

\* C26: when the fleet table's last annual date of a plane did not parse, every
\* replayed lesson of the plane is flagged annual-overdue until an annual inspection
\* with a parseable date has been replayed.
C26_UnparseableAnnualFlagged ==
    [][ (LessonReplayed /\ plane_state[Event.tail].last_annual = None
           /\ ~AnnualReplayedBefore(idx)) => annual' ]_vars

\* what the code does instead: with no last annual date the check is skipped
UnparseableAnnualNeverFlagged ==
    [][ (LessonReplayed /\ current_annual[Event.tail] = None) => ~annual' ]_vars

-----------------------------------------------------------------------------
(* The inspection scan: the hours since the last service *)

\* the position of the plane's last repair or annual inspection among the first n
\* events, 0 when there is none
LastShop(tail, n) ==
    LET shop == { j \in 1..n : events[j].tail = tail /\ events[j].etype # "lesson" }
    IN  IF shop = {} THEN 0 ELSE CHOOSE j \in shop : \A k \in shop : k <= j

\* the hours flown by the plane's lessons among the events from..to
RECURSIVE HoursFlown(_, _, _)
HoursFlown(tail, from, to) ==
    IF from > to THEN 0
    ELSE (IF events[to].tail = tail /\ events[to].etype = "lesson"
          THEN FlownHours(events[to]) ELSE 0)
         + HoursFlown(tail, from, to - 1)

\* the HOURS column of the plane's row of fleet.csv
HoursInTable(tail) ==
    LET rows == { k \in DOMAIN planes : planes[k].tail = tail }
    IN  planes[CHOOSE k \in rows : \A m \in rows : m <= k].hours

HoursSinceService(tail, n) ==
    (IF LastShop(tail, n) = 0 THEN HoursInTable(tail) ELSE 0)
      + HoursFlown(tail, LastShop(tail, n) + 1, n)

\* C27: after every replayed event, the hours since service of each plane are the
\* hours flown by its lessons replayed since its last repair or annual inspection,
\* plus the hours of fleet.csv when no such event has been replayed; they are never
\* negative (the tables hold no negative hours and no lesson landing before takeoff).
C27_HoursSinceService ==
    (pc \in { "replay", "done" }) =>
        \A tail \in DOMAIN plane_state :
            /\ current_hours[tail] = HoursSinceService(tail, idx - 1)
            /\ current_hours[tail] >= 0

\* a lesson with hours flown has been replayed after a repair of its plane
C27_Witness ==
    /\ LastIsLesson
    /\ FlownHours(Last) > 0
    /\ LastShop(Last.tail, idx - 1) > 0
    /\ current_hours[Last.tail] = FlownHours(Last)

-----------------------------------------------------------------------------
(* The inspection scan: the history of the last annual date *)

MaxAnnualLessons == 1
MaxAnnualRepairs == 2

\* fleet.csv with no last annual date, an old one, and one later than a repair
AnnualFleetTables ==
    { << [ tail |-> a, annual |-> d, hours |-> h ] >> :
        a \in Fleet, d \in { None, Some(0), Some(T0 + 2) }, h \in InitialHours }

AnnualLessonRows ==
    { [ tail |-> a, takeoff |-> Some(t), landing |-> Some(t + 1) ] :
        a \in Fleet, t \in { T0, T0 + 4 } }
    \cup { [ tail |-> UnknownTail, takeoff |-> Some(T0), landing |-> Some(T0 + 1) ] }
    \cup { [ tail |-> a, takeoff |-> None, landing |-> Some(T0 + 1) ] : a \in Fleet }

AnnualRepairRows ==
    { [ tail |-> a, in_date |-> Some(t), out_date |-> Some(t), desc |-> "Annual Inspection" ] :
        a \in Fleet, t \in { T0 + 1, T0 + 3 } }
    \cup { [ tail |-> a, in_date |-> None, out_date |-> Some(T0 + 3),
             desc |-> "Annual Inspection" ] : a \in Fleet }
    \cup { [ tail |-> a, in_date |-> Some(T0 + 2), out_date |-> Some(T0 + 2),
             desc |-> "Oil Change" ] : a \in Fleet }

\* the datasets of Init with the tables above
AnnualsInit ==
    /\ lessons \in SeqsUpTo(AnnualLessonRows, MaxAnnualLessons)
    /\ planes \in AnnualFleetTables
    /\ repairs \in SeqsUpTo(AnnualRepairRows, MaxAnnualRepairs)
    /\ plane_state = << >>
    /\ events = << >>
    /\ idx = 0
    /\ current_annual = << >>
    /\ current_hours = << >>
    /\ last_landing = << >>
    /\ grounded = FALSE
    /\ annual = FALSE
    /\ inspection = FALSE
    /\ duration = 0
    /\ annotation = NoLabel
    /\ violations = << >>
    /\ pc = "load"
    /\ err = "none"
    /\ students = << >>
    /\ instructors = << >>
    /\ solo = FALSE
    /\ endorsement = FALSE
    /\ ifr = FALSE
    /\ minimums = << >>
    /\ weather = << >>
    /\ daycycle = << >>
    /\ mins = << >>
    /\ weather_report = << >>
    /\ violation = NoLabel
    /\ args = << >>
    /\ result = << >>
    /\ run = 1
    /\ previous = << >>
    /\ directory = << >>
    /\ stage = "idle"
    /\ all_violations = << >>

SpecAnnuals == AnnualsInit /\ [][Next]_vars

\* a step of the replay loop that carries an event through
EventReplayed == AtEvent /\ idx' = idx + 1

\* the date after is at or after the date before; no date before leaves nothing to
\* go back from, and no date after a date is a date lost
NotBackwards(before, after) ==
    before = None \/ (after # None /\ Val(after) >= Val(before))

\* an annual inspection of the event's plane was replayed before the event
AnnualBefore(i) ==
    \E j \in 1..(i - 1) : events[j].tail = events[i].tail /\ events[j].etype = "annual"

\* C28 as stated: no replayed event moves the last annual date of a plane backwards,
\* starting from the date of fleet.csv.
C28_AnnualNeverBackwards ==
    [][ EventReplayed =>
          \A tail \in DOMAIN current_annual :
              NotBackwards(current_annual[tail], current_annual'[tail]) ]_vars

\* C28: lessons and other repairs leave the last annual date as it is, an annual
\* inspection sets it to its own date, and from the second annual inspection of a
\* plane on the date does not move backwards (both dates unparseable counts as no
\* move); the first annual inspection replaces the date of fleet.csv also with an
\* earlier or an unparseable date.
C28_AnnualEventsInOrder ==
    [][ EventReplayed =>
          /\ \A tail \in DOMAIN current_annual \ { Event.tail } :
                 current_annual'[tail] = current_annual[tail]
          /\ (Event.etype # "annual") => current_annual' = current_annual
          /\ (Event.etype = "annual") => current_annual'[Event.tail] = Event.time
          /\ (Event.etype = "annual" /\ AnnualBefore(idx)) =>
                 NotBackwards(current_annual[Event.tail], current_annual'[Event.tail]) ]_vars

\* a second annual inspection, later than the first, has been replayed
C28_Witness ==
    /\ HasLast
    /\ Last.etype = "annual"
    /\ Last.time # None
    /\ current_annual[Last.tail] = Last.time
    /\ \E j \in 1..(idx - 2) :
          /\ events[j].tail = Last.tail
          /\ events[j].etype = "annual"
          /\ events[j].time # None
          /\ Val(events[j].time) < Val(Last.time)

-----------------------------------------------------------------------------
(* The inspection scan: hours that stay overdue *)

\* the hours of event i's plane reached 100 after one of the events before it (or in
\* fleet.csv), and the plane has had no repair or annual inspection since
ReachedLimit(i) ==
    \E j \in 0..(i - 1) :
        /\ HoursSinceService(events[i].tail, j) >= HourLimit
        /\ LastShop(events[i].tail, i - 1) <= j

\* the step appends the event's lesson labelled 'Inspection' or 'Maintenance'
EmittedOverdue ==
    /\ Len(violations') = Len(violations) + 1
    /\ SubSeq(violations', 1, Len(violations)) = violations
    /\ violations'[Len(violations')].lesson = Event.lesson
    /\ violations'[Len(violations')].reason \in { "Inspection", "Maintenance" }

\* C29: once the hours of a plane have reached 100, every lesson of the plane that
\* comes up in the replay before its next repair or annual inspection is emitted,
\* labelled 'Inspection' or 'Maintenance'; none is left out or labelled otherwise.
C29_OverdueUntilService ==
    [][ (AtEvent /\ Event.etype = "lesson" /\ Event.tail \in DOMAIN plane_state
           /\ ReachedLimit(idx)) => EmittedOverdue ]_vars

\* the same of the lessons that the loop carries through without raising
OverdueUntilServiceWhenReplayed ==
    [][ (LessonReplayed /\ ReachedLimit(idx)) => EmittedOverdue ]_vars

\* no two rows of lessons.csv and repairs.csv of one plane carry the same timestamp
\* (takeoff, shop entry); two unparseable timestamps count as the same
NoSharedTimestamp(ls, rs) ==
    /\ \A i, j \in DOMAIN ls :
          (i # j /\ ls[i].tail = ls[j].tail) => ls[i].takeoff # ls[j].takeoff
    /\ \A i, j \in DOMAIN rs :
          (i # j /\ rs[i].tail = rs[j].tail) => rs[i].in_date # rs[j].in_date
    /\ \A i \in DOMAIN ls : \A j \in DOMAIN rs :
          (ls[i].tail = rs[j].tail) => ls[i].takeoff # rs[j].in_date

\* the rows stand in the order of (tail, takeoff)
OrderedByTailAndTakeoff(list) ==
    \A i, j \in DOMAIN list :
        i < j =>
           \/ TailOrd(list[i].lesson.tail) < TailOrd(list[j].lesson.tail)
           \/ /\ list[i].lesson.tail = list[j].lesson.tail
              /\ list[i].lesson.takeoff # None
              /\ list[j].lesson.takeoff # None
              /\ Val(list[i].lesson.takeoff) < Val(list[j].lesson.takeoff)

\* a call over reordered tables has just ended
PermutedRunEnds ==
    /\ run' = 2
    /\ pc # pc'
    /\ pc' \in { "done", "raised" }
    /\ previous'.change = "permuted"
    /\ NoSharedTimestamp(lessons', repairs')

\* C30: when no two events of one plane share a timestamp, the scan over the lesson
\* rows and the repair rows in any other order gives the identical violation list,
\* and the rows of the list stand in the order of (tail, takeoff).
C30_RowOrderDoesNotMatter ==
    [][ PermutedRunEnds =>
          /\ Emitted(violations', pc') = Emitted(previous'.violations, previous'.pc)
          /\ pc' = previous'.pc
          /\ OrderedByTailAndTakeoff(violations') ]_vars

\* the same when neither call raises
RowOrderDoesNotMatterUnlessRaised ==
    [][ (PermutedRunEnds /\ pc' = "done" /\ previous'.pc = "done") =>
          /\ violations' = previous'.violations
          /\ OrderedByTailAndTakeoff(violations') ]_vars

====
